---- MODULE Spec2Model ----
(***************************************************************************)
(* Progressive discovery / render pipeline of the portfolio gallery:       *)
(*   - the format-aware discovery loader (createAutoLoader,                *)
(*     findImageCandidate) of modules/imageLoader.js,                      *)
(*   - the render lifecycle (renderPortfolioPage) and the page-ready       *)
(*     waiter registry (waitForPageReady, notifyPageReady) of              *)
(*     modules/pageRenderer.js,                                            *)
(*   - the shared AppState singleton.                                      *)
(* Every await of the code is a step boundary: the state between two       *)
(* actions is the state the single JavaScript thread leaves behind when    *)
(* it suspends.                                                            *)
(***************************************************************************)
EXTENDS Integers, Sequences, FiniteSets, TLC

(* ---------------------------- configuration ---------------------------- *)

MAX_PAGES == 100

MAX_CONSECUTIVE_FAILURES == 5

FORMAT_PRIORITY == <<"avif", "webp", "png">>

Formats == {FORMAT_PRIORITY[i] : i \in DOMAIN FORMAT_PRIORITY}

(* preferredFormat = null *)
NoFormat == "none"

(* ------------------------------- bounds -------------------------------- *)

(* discovery runs: image files may exist for pages 1..LowPages ...         *)
LowPages == 3

(* ... and for the last HighPages pages below the MAX_PAGES ceiling         *)
HighPages == 1

(* runs with clients: image files may exist for pages 1..ClientPages       *)
ClientPages == 2

(* number of waitForPageReady calls made by clients during one run         *)
MaxWaiters == 2

(* number of render requests issued by callers other than the pipeline     *)
MaxApiRenders == 1

(* bounds of the animation runs, in milliseconds                            *)
AnimDelay == 400

ShortDuration == 500

LongDuration == 1500

Slice == 500

Horizon == 3000

(* hotspot runs: a page has at most MaxHotspots lines in the hotspot file   *)
MaxHotspots == 2

(* positioning runs: passes in a row that are told apart                   *)
MaxPasses == 2

(* later-call runs: next() calls made after next() had returned null        *)
MaxLaterCalls == 2

(* staged fetch: tryFormat calls in a row, the step of the clock while a   *)
(* fetch is under way, the latest instant a call is made                   *)
MaxAttempts == 2

FetchSlice == 2500

FetchHorizon == 5000

(* resize handlers: events of a run, the step of the clock, the latest     *)
(* instant of an event                                                     *)
MaxEvents == 3

DebounceSlice == 50

DebounceHorizon == 300

(* deferred positioning: positionHotspot calls made before the image loads *)
MaxDeferred == 2

(* hotspot discovery: times the page enters the viewport, the step of the  *)
(* clock, the latest instant of an entry                                   *)
MaxEntries == 3

DiscoverSlice == 1000

DiscoverHorizon == 6000

FilePages == (1..LowPages) \cup ((MAX_PAGES - HighPages + 1)..MAX_PAGES)

WaiterIds == 1..MaxWaiters

(* page numbers clients navigate to: one more than the gallery can hold    *)
WaitPages == 1..(ClientPages + 1)

(* the calls of handlePageNavigationRequest; call k awaits promise k        *)
NavIds == WaiterIds

(* the arguments of handlePageNavigationRequest: the integers from -1 to   *)
(* one past the gallery, and a number that is not an integer (2.5, held as *)
(* its integer part)                                                       *)
NavInputs ==
    {[isInteger |-> TRUE, value |-> v] : v \in -1..(ClientPages + 1)}
        \cup {[isInteger |-> FALSE, value |-> 2]}

(* page numbers of render requests from outside the pipeline               *)
ApiPages == {1}

(* page numbers the lines of the hotspot file name                         *)
HotspotPages == 1..ClientPages

(* outcomes of one timed fetch + decode of one format of one page          *)
Outcomes == {"ok", "notfound", "servererror", "httperror", "neterror",
             "timeout", "decodefail"}

(* CONFIG.HOTSPOT.MIN_TOUCH_SIZE, in rendered pixels                        *)
MIN_TOUCH_SIZE == 5

(* CONFIG.BREAKPOINTS.MOBILE                                               *)
MOBILE == 768

(* CONFIG.IMAGE.TIMEOUT_MS                                                 *)
TIMEOUT_MS == 5000

(* CONFIG.PERFORMANCE                                                      *)
RESIZE_DEBOUNCE_MS == 150

ORIENTATION_CHANGE_DELAY_MS == 200

(* CONFIG.HOTSPOT                                                          *)
DISCOVERY_DELAY == 2500

DISCOVERY_ANIMATION_DURATION == 3000

(* startAnimationTimers: EXIT_DURATION                                     *)
EXIT_DURATION == 600

(* startAnimationTimers: the delay of the removal after the fallback fade  *)
FALLBACK_REMOVE_MS == 500

(* hidePageAnimation: the length of the fade and the delay of its timer    *)
HIDE_FADE_MS == 1500

(* the icon classes of the animations of the page; the class               *)
(* animation-click-hint marks a custom entrance animation                  *)
AnimClasses == {"animation-mouse", "animation-click-hint"}

TriggerTypes == {"visible", "hover"}

(* the animation configs a page can carry for one icon                     *)
AnimConfigs ==
    [delay : {0, AnimDelay}, duration : {ShortDuration, LongDuration},
     triggerType : TriggerTypes]

VARIABLES
    present,              \* environment: the pages discoverable in some format
    steady,               \* environment: no fetch of a discoverable page fails
    nextPage,             \* createAutoLoader: nextPage
    consecutiveFailures,  \* createAutoLoader: consecutiveFailures
    foundAny,             \* createAutoLoader: foundAny
    loadedCount,          \* createAutoLoader: loadedCount
    preferredFormat,      \* module-level preferredFormat
    pageToCheck,          \* next(): pageToCheck of the running iteration
    attemptedFormats,     \* findImageCandidate: attemptedFormats
    fmtIdx,               \* findImageCandidate: 0 = preferred-format attempt,
                          \* i >= 1 = index of the for loop over FORMAT_PRIORITY
    probed,               \* history: page numbers handed to findImageCandidate
    lastOutcome,          \* history: how the most recent tryFormat call ended
    pc,                   \* position of the pipeline (initialize.. / background..)
    phase,                \* "init" = initializePortfolioPages, "bg" = background loop
    candidate,            \* the value next() has just returned, when pc = "yield"
    curSlot,              \* the page element whose render the pipeline awaits
    loadedImages,         \* appState.loadedImages
    pagesInFlight,        \* appState.pagesInFlight
    allPagesLoaded,       \* appState.allPagesLoaded
    maxLoadedPageNumber,  \* appState.maxLoadedPageNumber
    pageReadyResolvers,   \* appState.pageReadyResolvers
    dom,                  \* page elements created so far, in creation order
    galleryFallback,      \* the container shows the "no images" fallback
    waiters,              \* the promises waitForPageReady has returned
    apiRenders,           \* render requests made so far from outside the pipeline
    now,                  \* the clock of the timers, in milliseconds
    pageAnims,            \* the icon classes the configs of the page name
    animConfig,           \* _animationConfig of each animation element
    animEl,               \* each animation element: classes, inline style, in DOM
    animTimers,           \* pending setTimeout / requestAnimationFrame callbacks
    registered,           \* pageAnimationsMap holds the page
    observed,             \* animationVisibilityObserver observes the page
    hoverListener,        \* the page has the mouseenter listener
    triggeredPages,       \* triggeredPages, as the trigger types of the page
    ignoredTriggers,      \* history: trigger types whose repeated trigger hit the guard
    animLog,              \* history per element: timelines, hides, instants
    hotspotFile,          \* environment: the valid lines of the hotspot file, per page
    hotspotLoad,          \* loadHotspotConfigs: "pending", "done" or "failed"
    hotspotConfigsByPage, \* appState.hotspotConfigsByPage, as configs per page
    loaderVisible,        \* the global loading overlay is shown
    navs,                 \* the calls of handlePageNavigationRequest
    pointerLog,           \* history: pointer-enter events seen out of / in view
    cfgLine,              \* parseAnimationConfig: the parts of the line at hand
    parsed,               \* parseAnimationConfig: what became of that line
    hsConfig,             \* the validated config of one hotspot element
    imgDims,              \* natural and rendered size of the image of its page
    innerWidth,           \* window.innerWidth
    hsStyle,              \* the inline left / top / width / height of the hotspot
    styledFor,            \* history: the sizes and viewport of the last pass
    passes,               \* history: passes in a row since the last resize
    startup,              \* the DOMContentLoaded handler: "running", "hash" =
                          \* setupHashNavigation has run, "finished"
    laterCalls,           \* next() calls made after next() had returned null
    attempts,             \* the tryFormat calls of the staged fetch, in call order
    repositionTimers,     \* pending timers of the resize / orientation handlers
    repositionLog,        \* history: events and reposition passes of the burst
    imgComplete,          \* img.complete of the image of the hotspot's page
    loadListeners,        \* once-only load listeners positionHotspot has added
    deferLog,             \* history: requests deferred, passes run on load
    discoverTimers,       \* pending timers of the hotspot discovery animation
    discovery             \* the hotspot: 'discover' class, animatedHotspots, history

vars == <<present, steady, nextPage, consecutiveFailures, foundAny, loadedCount,
          preferredFormat, pageToCheck, attemptedFormats, fmtIdx, probed,
          lastOutcome, pc,
          phase, candidate, curSlot, loadedImages, pagesInFlight,
          allPagesLoaded, maxLoadedPageNumber, pageReadyResolvers, dom,
          galleryFallback, waiters, apiRenders, now, pageAnims, animConfig,
          animEl,
          animTimers, registered, observed, hoverListener, triggeredPages,
          ignoredTriggers, animLog, hotspotFile, hotspotLoad,
          hotspotConfigsByPage, loaderVisible, navs, pointerLog, cfgLine,
          parsed, hsConfig, imgDims, innerWidth, hsStyle, styledFor, passes,
          startup, laterCalls, attempts, repositionTimers, repositionLog,
          imgComplete, loadListeners, deferLog, discoverTimers, discovery>>

geomVars == <<hsConfig, imgDims, innerWidth, hsStyle, styledFor, passes>>

(* the inputs and results of the functions checked on their own            *)
pureVars == <<cfgLine, parsed, geomVars>>

(* callers and engines beside the pipeline of the start-up run            *)
fetchVars == <<attempts>>

debounceVars == <<repositionTimers, repositionLog>>

deferVars == <<imgComplete, loadListeners, deferLog>>

discoverVars == <<discoverTimers, discovery>>

extraVars == <<laterCalls, fetchVars, debounceVars, deferVars, discoverVars>>

hotspotVars == <<hotspotFile, hotspotLoad, hotspotConfigsByPage>>

animVars == <<now, pageAnims, animConfig, animEl, animTimers, registered, observed,
              hoverListener, triggeredPages, ignoredTriggers, animLog, pointerLog>>

(* the animation engine without the clock                                  *)
animState == <<pageAnims, animConfig, animEl, animTimers, registered, observed,
               hoverListener, triggeredPages, ignoredTriggers, animLog, pointerLog>>

pipelineVars == <<present, steady, nextPage, consecutiveFailures, foundAny,
                  loadedCount, preferredFormat, pageToCheck, attemptedFormats,
                  fmtIdx, probed, lastOutcome, pc, phase, candidate, curSlot,
                  loadedImages, pagesInFlight, allPagesLoaded,
                  maxLoadedPageNumber, pageReadyResolvers, dom,
                  galleryFallback, waiters, apiRenders, hotspotVars,
                  loaderVisible, navs, pureVars, startup, extraVars>>

(* what the pipeline and its clients leave alone                           *)
sideVars == <<animVars, hotspotVars, navs, pureVars, startup, extraVars>>

(* the pipeline and its clients, without the clock and the engines beside  *)
(* them                                                                    *)
pipelineCore == <<present, steady, nextPage, consecutiveFailures, foundAny,
                  loadedCount, preferredFormat, pageToCheck, attemptedFormats,
                  fmtIdx, probed, lastOutcome, pc, phase, candidate, curSlot,
                  loadedImages, pagesInFlight, allPagesLoaded,
                  maxLoadedPageNumber, pageReadyResolvers, dom,
                  galleryFallback, waiters, apiRenders, hotspotVars,
                  loaderVisible, navs, startup, animState, cfgLine, parsed>>

loaderVars == <<nextPage, consecutiveFailures, foundAny, loadedCount,
                preferredFormat, pageToCheck, attemptedFormats, fmtIdx, probed,
                lastOutcome>>

(* ------------------------------ helpers -------------------------------- *)

Range(s) == {s[i] : i \in DOMAIN s}

Max(a, b) == IF a >= b THEN a ELSE b

(* null, as returned by tryFormat / findImageCandidate / next()            *)
NoData == [pageNumber |-> 0, path |-> <<0, NoFormat>>, format |-> NoFormat,
           decoded |-> FALSE]

(* a promise not yet handed out *)
IdleWaiter == [status |-> "idle", page |-> 0, value |-> 0, calls |-> 0,
               immediate |-> FALSE]

(* the null a waiter is resolved with; page elements are numbered from 1   *)
NullHandle == 0

(* a navigation request not made yet; result: "noop" = returned at the     *)
(* argument check, "scrolled" = scrollIntoView on element target,          *)
(* "notfound" = the 'not found' message, "silent" = returned without either *)
IdleNav == [status |-> "idle", input |-> [isInteger |-> TRUE, value |-> 0],
            showed |-> FALSE, result |-> "none", target |-> 0]

(* an exception leaving tryFormat instead of a return value                *)
Thrown == [pageNumber |-> 0, path |-> <<0, NoFormat>>, format |-> "thrown",
           decoded |-> FALSE]

(* ------------------------- discovery: one format ----------------------- *)

(* tryFormat without its catch block: a rejected fetch, an abort and a     *)
(* failed decode leave it as exceptions                                    *)
tryFormatUncaught(pageNumber, format, outcome) ==
    IF outcome = "ok"
    THEN [pageNumber |-> 0, path |-> <<pageNumber, format>>, format |-> format,
          decoded |-> TRUE]
    ELSE IF outcome \in {"neterror", "timeout", "decodefail"} THEN Thrown
    ELSE NoData

(* tryFormat: the image data of a fetched and decoded file, or null.       *)
(* The path is built from the page number and the format.                  *)
tryFormat(pageNumber, format, outcome) ==
    IF outcome = "ok"
    THEN [pageNumber |-> 0, path |-> <<pageNumber, format>>, format |-> format,
          decoded |-> TRUE]
    ELSE NoData

(* The environment: a fetch can only succeed for a discoverable page, and a *)
(* discoverable page has at least one format that fetches and decodes, so   *)
(* the attempt of its last untried format cannot fail; in a steady          *)
(* environment every format of a discoverable page fetches and decodes and  *)
(* every other request is answered with 404. Requests for the pages between *)
(* the low and the high file pages, which never exist, are answered with    *)
(* 404 in every environment.                                                *)
FetchPossible(pageNumber, format, outcome) ==
    IF outcome = "ok"
    THEN pageNumber \in present
    ELSE IF steady \/ pageNumber \notin FilePages
    THEN pageNumber \notin present /\ outcome = "notfound"
    ELSE \/ pageNumber \notin present
         \/ Formats \ (Range(attemptedFormats) \cup {format}) # {}

(* the for loop without its "continue" for the preferred format            *)
NextFormatIdxNoSkip(i, preferred) ==
    IF i <= Len(FORMAT_PRIORITY) THEN i ELSE Len(FORMAT_PRIORITY) + 1

(* for (const format of FORMAT_PRIORITY) { if (format === preferredFormat)  *)
(* continue; ... }: the first loop index >= i whose format is attempted.    *)
NextFormatIdx(i, preferred) ==
    LET rest == {j \in i..Len(FORMAT_PRIORITY) : FORMAT_PRIORITY[j] # preferred}
    IN  IF rest = {} THEN Len(FORMAT_PRIORITY) + 1
        ELSE CHOOSE j \in rest : \A k \in rest : j <= k

(* where findImageCandidate starts: the preferred format if one is known   *)
FirstFormatIdx(preferred) ==
    IF preferred # NoFormat THEN 0 ELSE NextFormatIdx(1, preferred)

(* the format the pending attempt fetches                                  *)
CurrentFormat(idx, preferred) ==
    IF idx = 0 THEN preferred ELSE FORMAT_PRIORITY[idx]

(* a preferred format that is stored once and never replaced               *)
PreferredKeptOnceSet(idx, preferred, format) ==
    IF preferred # NoFormat THEN preferred ELSE format

(* preferredFormat after a successful attempt: only the for loop stores it *)
PreferredAfterSuccess(idx, preferred, format) ==
    IF idx = 0 THEN preferred ELSE format

(* a result numbered with nextPage, which is already one ahead             *)
LoaderResultNextPage(found, checkedPage) ==
    [pageNumber |-> checkedPage + 1, path |-> found.path, format |-> found.format,
     decoded |-> found.decoded]

(* the object next() returns for a found page                              *)
LoaderResult(found, checkedPage) ==
    [pageNumber |-> checkedPage, path |-> found.path, format |-> found.format,
     decoded |-> found.decoded]

(* a break at the threshold whether or not a page was found                *)
StopAfterAbsenceAlways(found, failures) ==
    failures >= MAX_CONSECUTIVE_FAILURES

(* a break that needs one absence more than the threshold                  *)
StopAfterAbsenceStrict(found, failures) ==
    found /\ failures > MAX_CONSECUTIVE_FAILURES

(* the break condition of next() after a page was absent in every format   *)
StopAfterAbsence(found, failures) ==
    found /\ failures >= MAX_CONSECUTIVE_FAILURES

(* ------------------------- page elements (DOM) ------------------------- *)

(* DOM.createElement('div', 'portfolio-page loading', ...) appended to the *)
(* container; running = renderPortfolioPage has not returned for it yet.   *)
NewSlot(imageData) ==
    [page |-> imageData.pageNumber, loading |-> TRUE, loadError |-> FALSE,
     running |-> TRUE, decoded |-> imageData.decoded, attached |-> TRUE,
     hotspots |-> 0]

(* a selector without the data-page attribute: the first page element     *)
QueryAnyPage(d, n) ==
    LET hits == {i \in DOMAIN d : d[i].attached}
    IN  IF hits = {} THEN 0 ELSE CHOOSE i \in hits : \A j \in hits : i <= j

(* querySelector('.portfolio-page[data-page="n"]'): first match in the     *)
(* document, 0 when there is none                                          *)
QueryPage(d, n) ==
    LET hits == {i \in DOMAIN d : d[i].page = n /\ d[i].attached}
    IN  IF hits = {} THEN 0 ELSE CHOOSE i \in hits : \A j \in hits : i <= j

(* configsByPage.get(pageNumber): the number of configs of the page, 0 for *)
(* a page without an entry                                                *)
ConfigsFor(byPage, n) == IF n \in DOMAIN byPage THEN byPage[n] ELSE 0

(* attachHotspotsToPage: one hotspot element per config the map holds for  *)
(* the page at the moment of the call                                      *)
attachHotspotsToPage(slot, byPage) ==
    [slot EXCEPT !.hotspots = @ + ConfigsFor(byPage, slot.page)]

(* what the try / catch of renderPortfolioPage can end in for an element:  *)
(* "failLoad" = loadImageSequential rejected, which needs an image that was *)
(* not handed over decoded; "failAttach" = an exception after the image was *)
(* put in the page.                                                        *)
RenderOutcomes(slot) ==
    IF slot.decoded THEN {"ok", "failAttach"} ELSE {"ok", "failLoad", "failAttach"}

(* the page element after the try / catch of renderPortfolioPage; the      *)
(* fallback of the catch block replaces whatever the page held             *)
RenderedSlot(slot, outcome) ==
    CASE outcome = "ok" ->
            attachHotspotsToPage([slot EXCEPT !.loading = FALSE, !.running = FALSE],
                                 hotspotConfigsByPage)
      [] outcome = "failAttach" ->
            [slot EXCEPT !.loading = FALSE, !.loadError = TRUE, !.running = FALSE]
      [] OTHER ->
            [slot EXCEPT !.loadError = TRUE, !.running = FALSE]

(* a pipeline whose await of renderPage rejects when the render failed     *)
PipelineStopsOnFailedRender(outcome) ==
    IF outcome = "ok" THEN "next" ELSE "aborted"

(* where the pipeline goes when its await of renderPage returns: the try / *)
(* catch of renderPortfolioPage lets no failure out, so always on to the   *)
(* next loader.next()                                                      *)
PipelineAfterRender(outcome) == "next"

(* a removePageInFlight inside the try block, skipped by the catch path    *)
InFlightKeptOnFailure(inFlight, page, outcome) ==
    IF outcome = "ok" THEN inFlight \ {page} ELSE inFlight

(* appState.removePageInFlight after the try / catch: both paths reach it  *)
InFlightAfterRender(inFlight, page, outcome) == inFlight \ {page}

(* a hideLoader() placed before the await of the first render              *)
LoaderHiddenAtRenderStart(ph, visible) == IF ph = "init" THEN FALSE ELSE visible

(* the overlay while renderPage is awaited: neither initializePortfolioPages *)
(* nor the background loop touches it before the await returns              *)
LoaderAtRenderStart(ph, visible) == visible

(* the overlay when the await of renderPage has returned: hideLoader() of   *)
(* initializePortfolioPages after the first render; the background loop     *)
(* leaves it alone                                                          *)
LoaderAfterRender(ph, visible) == IF ph = "init" THEN FALSE ELSE visible

(* appState.updateMaxLoadedPageNumber, reached once the image is in place  *)
MaxLoadedAfter(current, slot, outcome) ==
    IF outcome = "failLoad" THEN current ELSE Max(current, slot.page)

(* --------------------------- waiter registry --------------------------- *)

ResolversFor(reg, n) == IF n \in DOMAIN reg THEN reg[n] ELSE <<>>

(* calling the resolve callback of every waiter in ws with value v: a      *)
(* promise keeps the value of the first call                               *)
ResolveAll(w, ws, v) ==
    [i \in DOMAIN w |->
        IF i \in ws
        THEN [w[i] EXCEPT !.status = "resolved",
                          !.value = IF w[i].calls = 0 THEN v ELSE w[i].value,
                          !.calls = w[i].calls + 1]
        ELSE w[i]]

(* notifyPageReady without the delete of the page's entry                  *)
RegistryKeptOnNotify(reg, n) == reg

(* notifyPageReady: the registry afterwards                                *)
RegistryAfterNotify(reg, n) ==
    [m \in DOMAIN reg |-> IF m = n THEN <<>> ELSE reg[m]]

(* notifyPageReady that resolves the waiters of every page                 *)
WaitersNotifiedForAnyPage(w, reg, n, handle) ==
    ResolveAll(w, UNION {Range(reg[m]) : m \in DOMAIN reg}, handle)

(* notifyPageReady: the waiters afterwards                                 *)
WaitersAfterNotify(w, reg, n, handle) ==
    ResolveAll(w, Range(ResolversFor(reg, n)), handle)

(* a flush that resolves only the waiters of pages past the last one loaded *)
WaitersFlushedPastLast(w, reg) ==
    ResolveAll(w, UNION {Range(reg[m]) : m \in {k \in DOMAIN reg : k > maxLoadedPageNumber}},
               NullHandle)

(* the flush at the end of backgroundLoadRemainingPages                    *)
WaitersAfterFlush(w, reg) ==
    ResolveAll(w, UNION {Range(reg[m]) : m \in DOMAIN reg}, NullHandle)

RegistryAfterFlush(reg) == [m \in DOMAIN reg |-> <<>>]

(* --------------------------- exact arithmetic -------------------------- *)

(* The numbers of the hotspot geometry are fractions n / d with d > 0 in   *)
(* lowest terms: the arithmetic of the code without the rounding of        *)
(* floating point.                                                         *)
Abs(i) == IF i < 0 THEN -i ELSE i

RECURSIVE GCD(_, _)
GCD(a, b) == IF b = 0 THEN a ELSE GCD(b, a % b)

Frac(n, d) ==
    LET g == GCD(Abs(n), Abs(d))
        sgn == IF d < 0 THEN -1 ELSE 1
    IN  [n |-> sgn * (n \div g), d |-> sgn * (d \div g)]

Num(i) == [n |-> i, d |-> 1]

Plus(x, y) == Frac(x.n * y.d + y.n * x.d, x.d * y.d)

Minus(x, y) == Frac(x.n * y.d - y.n * x.d, x.d * y.d)

Times(x, y) == Frac(x.n * y.n, x.d * y.d)

Over(x, y) == Frac(x.n * y.d, x.d * y.n)

Less(x, y) == x.n * y.d < y.n * x.d

AtMost(x, y) == x.n * y.d <= y.n * x.d

MathMin(x, y) == IF Less(y, x) THEN y ELSE x

MathMax(x, y) == IF Less(x, y) THEN y ELSE x

(* -------------------------- hotspot geometry --------------------------- *)

(* CONFIG.HOTSPOT.MIN_TOUCH_SCALE = 0.04                                   *)
MIN_TOUCH_SCALE == Frac(4, 100)

(* the validated configs of the runs: left% and bottom% in 0..100, width%  *)
(* and height% in 1..100, in percent of the image                          *)
HotspotConfigs ==
    [left : {0, 10, 90}, bottom : {0, 10, 95}, width : {1, 2, 20, 100},
     height : {1, 5, 50, 100}]

(* naturalWidth x naturalHeight of the image                               *)
NaturalSizes == {<<1000, 2000>>, <<800, 600>>}

(* width x height of img.getBoundingClientRect()                           *)
RenderedSizes == {<<100, 200>>, <<400, 300>>, <<1000, 500>>}

(* window.innerWidth: a phone, the breakpoint itself, a desktop            *)
ViewportWidths == {375, MOBILE, 1024}

(* a hotspot element without inline left / top / width / height           *)
NoStyle == [styled |-> FALSE, left |-> Num(0), top |-> Num(0), width |-> Num(0),
            height |-> Num(0)]

(* no pass has run since the element was created                           *)
NoPass == [imageWidth |-> 0, imageHeight |-> 0, innerWidth |-> 0]

(* history of the deferred positioning before any request                  *)
NoDeferLog == [deferred |-> 0, runsOnLoad |-> 0]

(* the image of the page is decoded: DOM.loadImage has resolved before the  *)
(* pipeline puts it in the page                                            *)
ImageDecoded ==
    /\ imgComplete = TRUE
    /\ loadListeners = 0
    /\ deferLog = NoDeferLog

(* history of the resize handlers before any event; -1 = not yet           *)
NoBurst == [events |-> 0, orientations |-> 0, lastEvent |-> -1, passes |-> 0,
            lastPass |-> -1, burst |-> TRUE]

(* the hotspot before its page was ever seen by the discovery observer     *)
(* calls = classList.add('discover') calls, adds = the calls that found    *)
(* the class absent                                                        *)
NoDiscovery == [discover |-> FALSE, animated |-> FALSE, calls |-> 0, adds |-> 0,
                entries |-> 0]

(* the runs without a hotspot element                                      *)
NoHotspotElement ==
    /\ ImageDecoded
    /\ hsConfig = [left |-> 0, bottom |-> 0, width |-> 100, height |-> 100]
    /\ imgDims = [naturalWidth |-> 0, naturalHeight |-> 0, imageWidth |-> 0,
                  imageHeight |-> 0]
    /\ innerWidth = 0
    /\ hsStyle = NoStyle
    /\ styledFor = NoPass
    /\ passes = 0

(* calculateMobileHotspotPosition, first part: the box of the config in    *)
(* rendered pixels, by way of the natural pixels                           *)
RenderedBox(config, dims) ==
    LET naturalWidth == Num(dims.naturalWidth)
        naturalHeight == Num(dims.naturalHeight)
        naturalWidthPx == Over(Times(naturalWidth, Num(config.width)), Num(100))
        naturalHeightPx == Over(Times(naturalHeight, Num(config.height)), Num(100))
        naturalLeft == Over(Times(naturalWidth, Num(config.left)), Num(100))
        naturalBottom == Over(Times(naturalHeight, Num(config.bottom)), Num(100))
        naturalTop == Minus(Minus(naturalHeight, naturalBottom), naturalHeightPx)
        scaleX == Over(Num(dims.imageWidth), naturalWidth)
        scaleY == Over(Num(dims.imageHeight), naturalHeight)
    IN  [left |-> Times(naturalLeft, scaleX), top |-> Times(naturalTop, scaleY),
         width |-> Times(naturalWidthPx, scaleX),
         height |-> Times(naturalHeightPx, scaleY)]

(* targetMinSide                                                           *)
targetMinSide(dims) ==
    LET minImageDimension == MathMin(Num(dims.imageWidth), Num(dims.imageHeight))
    IN  MathMax(Num(MIN_TOUCH_SIZE), Times(minImageDimension, MIN_TOUCH_SCALE))

(* a scale taken from the longer side of the box                           *)
touchScaleOfLongerSide(box, dims) ==
    LET currentMaxSide == MathMax(box.width, box.height)
    IN  IF Less(currentMaxSide, targetMinSide(dims))
        THEN Over(targetMinSide(dims), currentMaxSide) ELSE Num(1)

(* touchScale, from the shorter side of the box                            *)
touchScale(box, dims) ==
    LET currentMinSide == MathMin(box.width, box.height)
    IN  IF Less(currentMinSide, targetMinSide(dims))
        THEN Over(targetMinSide(dims), currentMinSide) ELSE Num(1)

(* if (touchScale > 1) { ... }: both sides scaled, the box moved by half   *)
(* of what each side gained                                                *)
InflatedBox(box, dims) ==
    LET scale == touchScale(box, dims)
        actualWidth == Times(box.width, scale)
        actualHeight == Times(box.height, scale)
    IN  IF Less(Num(1), scale)
        THEN [left |-> Minus(box.left, Over(Minus(actualWidth, box.width), Num(2))),
              top |-> Minus(box.top, Over(Minus(actualHeight, box.height), Num(2))),
              width |-> actualWidth, height |-> actualHeight]
        ELSE box

(* a clamp of the position that leaves the size alone                      *)
ClampedPositionOnly(box, dims) ==
    [left |-> MathMax(Num(0), MathMin(box.left, Minus(Num(dims.imageWidth), box.width))),
     top |-> MathMax(Num(0), MathMin(box.top, Minus(Num(dims.imageHeight), box.height))),
     width |-> box.width, height |-> box.height]

(* "Clamp within image bounds"                                             *)
ClampedBox(box, dims) ==
    LET imageWidth == Num(dims.imageWidth)
        imageHeight == Num(dims.imageHeight)
        actualWidth == MathMin(box.width, imageWidth)
        actualHeight == MathMin(box.height, imageHeight)
    IN  [left |-> MathMax(Num(0), MathMin(box.left, Minus(imageWidth, actualWidth))),
         top |-> MathMax(Num(0), MathMin(box.top, Minus(imageHeight, actualHeight))),
         width |-> actualWidth, height |-> actualHeight]

(* "Convert to percentages"                                                *)
InPercent(box, dims) ==
    [left |-> Times(Over(box.left, Num(dims.imageWidth)), Num(100)),
     top |-> Times(Over(box.top, Num(dims.imageHeight)), Num(100)),
     width |-> Times(Over(box.width, Num(dims.imageWidth)), Num(100)),
     height |-> Times(Over(box.height, Num(dims.imageHeight)), Num(100))]

calculateMobileHotspotPosition(config, dims) ==
    InPercent(ClampedBox(InflatedBox(RenderedBox(config, dims), dims), dims), dims)

(* a desktop transform that keeps the distance from the bottom as the top  *)
calculateDesktopHotspotPositionFromBottom(config, dims) ==
    [left |-> Num(config.left), top |-> Num(config.bottom),
     width |-> Num(config.width), height |-> Num(config.height)]

calculateDesktopHotspotPosition(config, dims) ==
    [left |-> Num(config.left), top |-> Num(100 - config.bottom - config.height),
     width |-> Num(config.width), height |-> Num(config.height)]

(* window.innerWidth <= CONFIG.BREAKPOINTS.MOBILE                          *)
isMobile(width) == width <= MOBILE

(* a pass that starts from the box the element already has: the applied    *)
(* width and height stand in for those of the config                       *)
positionHotspotFromStyle(style, config, dims, width) ==
    LET from == IF style.styled /\ style.width.d = 1 /\ style.height.d = 1
                THEN [config EXCEPT !.width = style.width.n,
                                    !.height = style.height.n]
                ELSE config
        position == IF isMobile(width)
                    THEN calculateMobileHotspotPosition(from, dims)
                    ELSE calculateDesktopHotspotPosition(from, dims)
    IN  [styled |-> TRUE, left |-> position.left, top |-> position.top,
         width |-> position.width, height |-> position.height]

(* positionHotspot: the inline style of the hotspot after the call; an     *)
(* image without natural size leaves the element as it is                  *)
positionHotspot(style, config, dims, width) ==
    IF dims.naturalWidth = 0 \/ dims.naturalHeight = 0 THEN style
    ELSE LET position == IF isMobile(width)
                         THEN calculateMobileHotspotPosition(config, dims)
                         ELSE calculateDesktopHotspotPosition(config, dims)
         IN  [styled |-> TRUE, left |-> position.left, top |-> position.top,
              width |-> position.width, height |-> position.height]

(* ----------------------- animation config lines ------------------------ *)

(* the text of the parts a line is split into, and the numbers parseInt    *)
(* and parseFloat read from them; every other part reads as NaN            *)
NumberTokens ==
    [t \in {"0", "1", "2", "50", "110", "400", "500", "5000"} |->
        CASE t = "0" -> 0 [] t = "1" -> 1 [] t = "2" -> 2 [] t = "50" -> 50
          [] t = "110" -> 110 [] t = "400" -> 400 [] t = "500" -> 500
          [] OTHER -> 5000]

NaN == [nan |-> TRUE, value |-> 0]

(* parseFloat of one part                                                  *)
parseFloat(t) ==
    IF t \in DOMAIN NumberTokens THEN [nan |-> FALSE, value |-> NumberTokens[t]]
    ELSE NaN

(* parseInt of one part: the parts that read as numbers are all integers   *)
parseInt(t) == parseFloat(t)

(* Validation.validatePageNumber / validatePercentage / validatePositiveNumber *)
validatePageNumber(num) == ~num.nan /\ num.value >= 1

validatePercentage(num) == ~num.nan /\ num.value >= 0 /\ num.value <= 100

validatePositiveNumber(num) == ~num.nan /\ num.value > 0

(* iconFile && iconFile.endsWith('.svg')                                   *)
IsIconFile(t) == t \in {"mouse.svg", "click-hint.svg"}

(* triggerType.toLowerCase()                                               *)
toLowerCase(t) ==
    CASE t = "HOVER" -> "hover" [] t = "Visible" -> "visible" [] OTHER -> t

(* destructuring with a default: the default stands in for a missing part  *)
PartOr(parts, i, default) == IF i <= Len(parts) THEN parts[i] ELSE default

(* a line that has not been parsed; the config of a rejected line          *)
NoConfig == [pageNumber |-> NaN, centerX |-> NaN, centerY |-> NaN, size |-> NaN,
             iconFile |-> "", duration |-> NaN, delay |-> NaN, triggerType |-> ""]

Unparsed == [status |-> "unparsed", config |-> NoConfig]

(* the body of the for loop of parseAnimationConfig for the parts of one   *)
(* line: the config pushed, or the line skipped with a warning             *)
parseAnimationConfig(parts) ==
    IF Len(parts) < 6 \/ Len(parts) > 8
    THEN [status |-> "rejected", config |-> NoConfig]
    ELSE
    LET pageNum == parts[1]
        centerX == parts[2]
        centerY == parts[3]
        size == parts[4]
        iconFile == parts[5]
        duration == parts[6]
        delay == PartOr(parts, 7, "0")
        triggerType == PartOr(parts, 8, "visible")
        normalizedTriggerType == toLowerCase(triggerType)
    IN
    IF \/ ~validatePageNumber(parseInt(pageNum))
       \/ ~validatePercentage(parseFloat(centerX))
       \/ ~validatePercentage(parseFloat(centerY))
       \/ ~validatePositiveNumber(parseFloat(size))
       \/ ~validatePositiveNumber(parseFloat(duration))
       \/ ~IsIconFile(iconFile)
    THEN [status |-> "rejected", config |-> NoConfig]
    ELSE [status |-> "accepted",
          config |-> [pageNumber |-> parseInt(pageNum),
                      centerX |-> parseFloat(centerX),
                      centerY |-> parseFloat(centerY),
                      size |-> parseFloat(size),
                      iconFile |-> iconFile,
                      duration |-> parseFloat(duration),
                      delay |-> parseFloat(delay),
                      triggerType |-> IF normalizedTriggerType \in {"hover", "visible"}
                                      THEN normalizedTriggerType ELSE "visible"]]

(* the lines of the runs: the eight fields with valid values, the icon     *)
(* file name in the second or in the fifth place, with and without the two *)
(* optional fields, and lines cut short or with a field too many           *)
ConfigLines ==
    LET heads ==
          {<<pg, x, "50", "110">> : pg \in {"1", "2"}, x \in {"0", "50"}}
        tails ==
          {<<d>> : d \in {"500", "5000"}}
            \cup {<<d, dl>> : d \in {"500", "5000"}, dl \in {"0", "400"}}
            \cup {<<d, dl, tr>> : d \in {"500", "5000"}, dl \in {"0", "400"},
                                   tr \in {"visible", "hover", "HOVER", "click"}}
        iconFifth == {h \o <<ic>> \o t :
                        h \in heads, ic \in {"mouse.svg"}, t \in tails}
        iconSecond == {<<h[1], ic, h[2], h[3], h[4]>> \o t :
                        h \in heads, ic \in {"mouse.svg"}, t \in tails}
    IN  iconFifth \cup iconSecond
          \cup {<<"1", "50", "50", "110", "mouse.svg">>,
                <<"1", "50", "50", "110", "mouse.svg", "500", "0", "hover", "x">>}

(* ------------------------- animation elements -------------------------- *)

(* the config of a page element that carries no animation run              *)
DefaultConfig == [delay |-> 0, duration |-> ShortDuration, triggerType |-> "visible"]

(* no element yet: createAnimationElement has not run                      *)
NoElement ==
    [created |-> FALSE, inDom |-> FALSE, visibility |-> "hidden", opacity |-> "0",
     transition |-> "none", hidden |-> FALSE, hiddenPermanent |-> FALSE,
     exiting |-> FALSE]

(* history of an element before anything happened to it; -1 = not yet      *)
NoLog ==
    [timelines |-> 0, triggeredAt |-> -1, shownAt |-> -1, exitAt |-> -1,
     removedAt |-> -1, fades |-> 0, hideAt |-> -1, timelinesAtHide |-> 0,
     permanents |-> 0, ignoredHide |-> FALSE]

(* animElement.classList.contains('animation-click-hint')                  *)
hasCustomAnimation(a) == a = "animation-click-hint"

(* createAnimationElement: hidden; inline opacity 0 unless the CSS         *)
(* animation of the icon controls the opacity                              *)
createAnimationElement(a) ==
    [created |-> TRUE, inDom |-> TRUE, visibility |-> "hidden",
     opacity |-> IF hasCustomAnimation(a) THEN "css" ELSE "0",
     transition |-> "none", hidden |-> FALSE, hiddenPermanent |-> FALSE,
     exiting |-> FALSE]

(* the "show" of startAnimationTimers, at once or in its delay timer       *)
ShownElement(el, a) ==
    IF hasCustomAnimation(a)
    THEN [el EXCEPT !.visibility = "visible"]
    ELSE [el EXCEPT !.visibility = "visible", !.opacity = "1", !.transition = "show"]

(* an exit that starts when the whole duration has passed                  *)
ExitStartsAtTotalTime(cfg) == cfg.delay + cfg.duration

(* exitStartTime of startAnimationTimers, relative to the call             *)
ExitStartTime(cfg) == cfg.delay + cfg.duration - EXIT_DURATION

(* the branch of startAnimationTimers that uses the 'exiting' class        *)
UsesExitClass(a, cfg) == hasCustomAnimation(a) /\ ExitStartTime(cfg) > cfg.delay

(* the first line of startAnimationTimers: skip a permanently hidden one   *)
TimelineStarts(el) == ~el.hiddenPermanent

(* a start that shows the element at once whatever the delay              *)
ElementShownAtStart(el, a, cfg) ==
    IF TimelineStarts(el) THEN ShownElement(el, a) ELSE el

(* the element when startAnimationTimers returns                           *)
ElementAfterStart(el, a, cfg) ==
    IF TimelineStarts(el) /\ ~(cfg.delay > 0) THEN ShownElement(el, a) ELSE el

(* the timers startAnimationTimers schedules when called at instant t      *)
TimersOfStart(el, a, cfg, t) ==
    IF ~TimelineStarts(el) THEN {}
    ELSE (IF cfg.delay > 0
          THEN {[anim |-> a, kind |-> "show", due |-> t + cfg.delay]} ELSE {})
         \cup
         (IF UsesExitClass(a, cfg)
          THEN {[anim |-> a, kind |-> "pulseEnd", due |-> t + ExitStartTime(cfg)],
                [anim |-> a, kind |-> "exit", due |-> t + ExitStartTime(cfg)],
                [anim |-> a, kind |-> "remove",
                 due |-> t + ExitStartTime(cfg) + EXIT_DURATION]}
          ELSE {[anim |-> a, kind |-> "fade", due |-> t + cfg.delay + cfg.duration]})

(* the history of an element when startAnimationTimers returns             *)
LogAfterStart(log, el, cfg, t) ==
    IF ~TimelineStarts(el) THEN log
    ELSE [log EXCEPT !.timelines = @ + 1,
                     !.triggeredAt = IF @ = -1 THEN t ELSE @,
                     !.shownAt = IF @ = -1 /\ ~(cfg.delay > 0) THEN t ELSE @]

(* a trigger guard that never finds the key                                *)
NeverTriggered(keys, type) == FALSE

(* triggeredPages.has(key) for the key of this page and trigger type       *)
AlreadyTriggered(keys, type) == type \in keys

(* startPageAnimations(page, type) on the elements els at instant t:       *)
(* startAnimationTimers for every element whose config has that type       *)
startPageAnimations(els, log, type, t) ==
    LET hit == {a \in pageAnims : animConfig[a].triggerType = type} IN
    [els    |-> [a \in AnimClasses |->
                   IF a \in hit THEN ElementAfterStart(els[a], a, animConfig[a])
                   ELSE els[a]],
     timers |-> UNION {TimersOfStart(els[a], a, animConfig[a], t) : a \in hit},
     log    |-> [a \in AnimClasses |->
                   IF a \in hit THEN LogAfterStart(log[a], els[a], animConfig[a], t)
                   ELSE log[a]]]

(* a mouseenter listener without the viewport check                        *)
PointerEnterHandledAnywhere(inView) == TRUE

(* the mouseenter listener goes on to the trigger guard only if the page   *)
(* is in the viewport at that moment                                       *)
PointerEnterHandled(inView) == inView

(* a hide guard that looks at the permanent class only                     *)
HideAcceptedUnlessPermanent(el) == ~el.hiddenPermanent

(* the guard of hidePageAnimation: not hidden and not hiding               *)
HideAccepted(el) == ~(el.hiddenPermanent \/ el.hidden)

(* hidePageAnimation, steps 1 to 5: transition set, opacity set to the     *)
(* start value (the computed opacity, or 1 when that is 0), class added    *)
HidingElement(el) ==
    [el EXCEPT !.transition = "hide", !.opacity = "1", !.hidden = TRUE]

(* the callback of one timer or animation frame, on its element            *)
ElementAfterTimer(el, a, kind) ==
    CASE kind = "show"      -> ShownElement(el, a)
      [] kind = "exit"      -> [el EXCEPT !.exiting = TRUE]
      [] kind = "remove"    -> [el EXCEPT !.inDom = FALSE]
      [] kind = "fade"      -> [el EXCEPT !.opacity = "0", !.transition = "exit"]
      [] kind = "fadeRemove" -> [el EXCEPT !.inDom = FALSE]
      [] kind = "frame"     -> [el EXCEPT !.opacity = "0"]
      [] kind = "permanent" -> [el EXCEPT !.hiddenPermanent = TRUE, !.hidden = FALSE]
      [] OTHER              -> el

(* the timers a callback schedules itself                                  *)
TimersOfTimer(a, kind, t) ==
    IF kind = "fade"
    THEN {[anim |-> a, kind |-> "fadeRemove", due |-> t + FALLBACK_REMOVE_MS]}
    ELSE {}

(* the history of an element after one of its callbacks ran at instant t   *)
LogAfterTimer(log, el, kind, t) ==
    CASE kind = "show" -> [log EXCEPT !.shownAt = IF @ = -1 THEN t ELSE @]
      [] kind \in {"exit", "fade"} -> [log EXCEPT !.exitAt = IF @ = -1 THEN t ELSE @]
      [] kind \in {"remove", "fadeRemove"} ->
            [log EXCEPT !.removedAt = IF @ = -1 /\ el.inDom THEN t ELSE @]
      [] kind = "permanent" -> [log EXCEPT !.permanents = @ + 1]
      [] OTHER -> log

(* the instant of the earliest pending callback                            *)
NextDue ==
    CHOOSE t \in {tm.due : tm \in animTimers} : \A tm \in animTimers : t <= tm.due

(* ------------------------------- Init ---------------------------------- *)

Start ==
    /\ nextPage = 1
    /\ consecutiveFailures = 0
    /\ foundAny = FALSE
    /\ loadedCount = 0
    /\ preferredFormat = NoFormat
    /\ pageToCheck = 0
    /\ attemptedFormats = <<>>
    /\ fmtIdx = 0
    /\ probed = <<>>
    /\ lastOutcome = "none"
    /\ pc = "next"
    /\ phase = "init"
    /\ candidate = NoData
    /\ curSlot = 0
    /\ loadedImages = <<>>
    /\ pagesInFlight = {}
    /\ allPagesLoaded = FALSE
    /\ maxLoadedPageNumber = 0
    /\ pageReadyResolvers = [n \in WaitPages |-> <<>>]
    /\ dom = <<>>
    /\ galleryFallback = FALSE
    /\ waiters = [w \in WaiterIds |-> IdleWaiter]
    /\ apiRenders = 0
    /\ loaderVisible = TRUE
    /\ navs = [k \in NavIds |-> IdleNav]
    /\ startup = "running"
    /\ laterCalls = 0
    /\ attempts = <<>>
    /\ repositionTimers = {}
    /\ repositionLog = NoBurst
    /\ discoverTimers = {}
    /\ discovery = NoDiscovery

(* a run without a hotspot file: loadHotspotConfigs has returned and the   *)
(* map is empty                                                            *)
NoHotspots ==
    /\ hotspotFile = [n \in HotspotPages |-> 0]
    /\ hotspotLoad = "done"
    /\ hotspotConfigsByPage = [n \in HotspotPages |-> 0]

(* no line of an animation config file is being parsed                     *)
NoConfigLine ==
    /\ cfgLine = <<>>
    /\ parsed = Unparsed
    /\ NoHotspotElement

(* one hotspot element of a rendered page, created and not positioned yet  *)
HotspotElement ==
    /\ ImageDecoded
    /\ hsStyle = NoStyle
    /\ styledFor = NoPass
    /\ passes = 0

(* the animation engine before attachAnimationsToPage                      *)
AnimStart ==
    /\ now = 0
    /\ animEl = [a \in AnimClasses |-> NoElement]
    /\ animTimers = {}
    /\ registered = FALSE
    /\ observed = FALSE
    /\ hoverListener = FALSE
    /\ triggeredPages = {}
    /\ ignoredTriggers = {}
    /\ animLog = [a \in AnimClasses |-> NoLog]
    /\ pointerLog = [out |-> FALSE, in |-> FALSE]

(* the gallery of a run with clients: some of the first pages, every one   *)
(* in every format                                                         *)
Init ==
    /\ present \in SUBSET (1..ClientPages)
    /\ steady = TRUE
    /\ Start
    /\ NoHotspots
    /\ NoConfigLine
    /\ AnimStart
    /\ pageAnims = {}
    /\ animConfig = [a \in AnimClasses |-> DefaultConfig]

(* the gallery of a discovery run: any of the file pages, in any formats   *)
DiscInit ==
    /\ present \in SUBSET FilePages
    /\ steady = FALSE
    /\ Start
    /\ NoHotspots
    /\ NoConfigLine
    /\ AnimStart
    /\ pageAnims = {}
    /\ animConfig = [a \in AnimClasses |-> DefaultConfig]

(* a rendered page that carries one animation, of any icon and config      *)
AnimInit ==
    /\ present = {}
    /\ steady = TRUE
    /\ Start
    /\ NoHotspots
    /\ NoConfigLine
    /\ AnimStart
    /\ pageAnims \in {{a} : a \in AnimClasses}
    /\ animConfig \in [AnimClasses -> AnimConfigs]
    /\ \A a \in AnimClasses \ pageAnims : animConfig[a] = DefaultConfig

(* ------------------------------ actions -------------------------------- *)

(* next(): the head of the while loop, up to the first fetch               *)
NextLoop ==
    /\ pc = "next"
    /\ IF nextPage <= MAX_PAGES
       THEN /\ pageToCheck' = nextPage
            /\ nextPage' = nextPage + 1
            /\ probed' = Append(probed, nextPage)
            /\ attemptedFormats' = <<>>
            /\ fmtIdx' = FirstFormatIdx(preferredFormat)
            /\ pc' = "probe"
       ELSE /\ pc' = "eos"
            /\ UNCHANGED <<pageToCheck, nextPage, probed, attemptedFormats, fmtIdx>>
    /\ UNCHANGED sideVars
    /\ UNCHANGED <<present, steady, consecutiveFailures, foundAny, loadedCount,
                   preferredFormat, lastOutcome, phase, candidate, curSlot,
                   loadedImages,
                   pagesInFlight, allPagesLoaded, maxLoadedPageNumber,
                   pageReadyResolvers, dom, galleryFallback, waiters, apiRenders,
                   loaderVisible>>

(* one tryFormat completes; findImageCandidate and next() run on to the    *)
(* next fetch or to their return                                           *)
TryFormat ==
    /\ pc = "probe"
    /\ fmtIdx <= Len(FORMAT_PRIORITY)
    /\ LET format == CurrentFormat(fmtIdx, preferredFormat) IN
       \E outcome \in Outcomes :
         /\ FetchPossible(pageToCheck, format, outcome)
         /\ LET result == tryFormat(pageToCheck, format, outcome)
                nextIdx == NextFormatIdx(fmtIdx + 1, preferredFormat)
            IN
            /\ attemptedFormats' = Append(attemptedFormats, format)
            /\ lastOutcome' = outcome
            /\ IF result = Thrown
               THEN /\ pc' = "aborted"
                    /\ UNCHANGED <<preferredFormat, foundAny, consecutiveFailures,
                                   loadedCount, candidate, fmtIdx>>
               ELSE IF result # NoData
               THEN /\ preferredFormat' =
                          PreferredAfterSuccess(fmtIdx, preferredFormat, format)
                    /\ foundAny' = TRUE
                    /\ consecutiveFailures' = 0
                    /\ loadedCount' = loadedCount + 1
                    /\ candidate' = LoaderResult(result, pageToCheck)
                    /\ pc' = "yield"
                    /\ UNCHANGED fmtIdx
               ELSE IF nextIdx <= Len(FORMAT_PRIORITY)
               THEN /\ fmtIdx' = nextIdx
                    /\ UNCHANGED <<preferredFormat, foundAny, consecutiveFailures,
                                   loadedCount, candidate, pc>>
               ELSE /\ consecutiveFailures' = consecutiveFailures + 1
                    /\ pc' = IF StopAfterAbsence(foundAny, consecutiveFailures + 1)
                             THEN "eos" ELSE "next"
                    /\ UNCHANGED <<preferredFormat, foundAny, loadedCount,
                                   candidate, fmtIdx>>
    /\ UNCHANGED sideVars
    /\ UNCHANGED <<present, steady, nextPage, pageToCheck, probed, phase, curSlot,
                   loadedImages, pagesInFlight, allPagesLoaded,
                   maxLoadedPageNumber, pageReadyResolvers, dom,
                   galleryFallback, waiters, apiRenders, loaderVisible>>

(* the caller of next() receives a page and starts renderPortfolioPage,    *)
(* which runs up to its await of loadImageSequential                       *)
ReceiveCandidate ==
    /\ pc = "yield"
    /\ loadedImages' = IF phase = "init" THEN <<candidate>>
                       ELSE Append(loadedImages, candidate)
    /\ pagesInFlight' = pagesInFlight \cup {candidate.pageNumber}
    /\ dom' = Append(dom, NewSlot(candidate))
    /\ curSlot' = Len(dom) + 1
    /\ candidate' = NoData
    /\ pc' = "render"
    /\ loaderVisible' = LoaderAtRenderStart(phase, loaderVisible)
    /\ UNCHANGED sideVars
    /\ UNCHANGED <<present, steady, loaderVars, phase, allPagesLoaded,
                   maxLoadedPageNumber, pageReadyResolvers, galleryFallback,
                   waiters, apiRenders>>

(* renderPortfolioPage resumes for page element i, ends its try / catch,   *)
(* leaves the in-flight set and notifies the waiters of its page; when the *)
(* pipeline awaited this render it goes on to the (next) background step   *)
RenderFinish(i) ==
    /\ i \in DOMAIN dom
    /\ dom[i].running
    /\ \E outcome \in RenderOutcomes(dom[i]) :
         /\ dom' = [dom EXCEPT ![i] = RenderedSlot(dom[i], outcome)]
         /\ maxLoadedPageNumber' = MaxLoadedAfter(maxLoadedPageNumber, dom[i], outcome)
         /\ IF pc = "render" /\ i = curSlot
            THEN /\ pc' = PipelineAfterRender(outcome)
                 /\ phase' = "bg"
                 /\ loaderVisible' = LoaderAfterRender(phase, loaderVisible)
            ELSE UNCHANGED <<pc, phase, loaderVisible>>
         /\ pagesInFlight' = InFlightAfterRender(pagesInFlight, dom[i].page, outcome)
    /\ waiters' = WaitersAfterNotify(waiters, pageReadyResolvers, dom[i].page, i)
    /\ pageReadyResolvers' = RegistryAfterNotify(pageReadyResolvers, dom[i].page)
    /\ UNCHANGED sideVars
    /\ UNCHANGED <<present, steady, loaderVars, candidate, curSlot, loadedImages,
                   allPagesLoaded, galleryFallback, apiRenders>>

(* the caller of next() receives null                                      *)
ReceiveEnd ==
    /\ pc = "eos"
    /\ allPagesLoaded' = TRUE
    /\ pc' = "done"
    /\ IF phase = "init"
       THEN /\ galleryFallback' = TRUE
            /\ loaderVisible' = FALSE
            /\ dom' = [i \in DOMAIN dom |-> [dom[i] EXCEPT !.attached = FALSE]]
            /\ UNCHANGED <<waiters, pageReadyResolvers>>
       ELSE /\ waiters' = WaitersAfterFlush(waiters, pageReadyResolvers)
            /\ pageReadyResolvers' = RegistryAfterFlush(pageReadyResolvers)
            /\ UNCHANGED <<galleryFallback, dom, loaderVisible>>
    /\ UNCHANGED sideVars
    /\ UNCHANGED <<present, steady, loaderVars, phase, candidate, curSlot, loadedImages,
                   pagesInFlight, maxLoadedPageNumber, apiRenders>>

(* waitForPageReady(n) with w the promise it returns: the promises and the *)
(* registry after the call                                                 *)
waitForPageReady(w, n) ==
    LET existingPage == QueryPage(dom, n) IN
    IF existingPage # 0 /\ ~dom[existingPage].loading
    THEN [waiters |-> [waiters EXCEPT ![w] =
                 [status |-> "resolved", page |-> n, value |-> existingPage,
                  calls |-> 1, immediate |-> TRUE]],
          resolvers |-> pageReadyResolvers]
    ELSE IF allPagesLoaded
    THEN [waiters |-> [waiters EXCEPT ![w] =
                 [status |-> "resolved", page |-> n, value |-> NullHandle,
                  calls |-> 1, immediate |-> TRUE]],
          resolvers |-> pageReadyResolvers]
    ELSE [waiters |-> [waiters EXCEPT ![w] =
                 [status |-> "pending", page |-> n, value |-> NullHandle,
                  calls |-> 0, immediate |-> FALSE]],
          resolvers |-> [m \in DOMAIN pageReadyResolvers \cup {n} |->
                           IF m = n
                           THEN Append(ResolversFor(pageReadyResolvers, n), w)
                           ELSE pageReadyResolvers[m]]]

(* a client calls waitForPageReady(n); w is the promise it gets back       *)
WaitForPage(w, n) ==
    /\ waiters[w].status = "idle"
    /\ \A v \in WaiterIds : v < w => waiters[v].status # "idle"
    /\ waiters' = waitForPageReady(w, n).waiters
    /\ pageReadyResolvers' = waitForPageReady(w, n).resolvers
    /\ UNCHANGED sideVars
    /\ UNCHANGED <<present, steady, loaderVars, pc, phase, candidate, curSlot,
                   loadedImages, pagesInFlight, allPagesLoaded,
                   maxLoadedPageNumber, dom, galleryFallback, apiRenders,
                   loaderVisible>>

(* a caller other than the pipeline calls renderPortfolioPage for page n,  *)
(* with or without an already decoded image element                        *)
RenderRequest(n, decoded) ==
    /\ apiRenders < MaxApiRenders
    /\ apiRenders' = apiRenders + 1
    /\ pagesInFlight' = pagesInFlight \cup {n}
    /\ dom' = Append(dom, NewSlot([NoData EXCEPT !.pageNumber = n,
                                                 !.decoded = decoded]))
    /\ UNCHANGED sideVars
    /\ UNCHANGED <<present, steady, loaderVars, pc, phase, candidate, curSlot,
                   loadedImages, allPagesLoaded, maxLoadedPageNumber,
                   pageReadyResolvers, galleryFallback, waiters, loaderVisible>>

(* the pipeline and the clients of the waiter registry                    *)
Next ==
    \/ NextLoop
    \/ TryFormat
    \/ ReceiveCandidate
    \/ ReceiveEnd
    \/ \E i \in DOMAIN dom : RenderFinish(i)
    \/ \E w \in WaiterIds, n \in WaitPages : WaitForPage(w, n)

Spec == Init /\ [][Next]_vars

(* the pipeline alone, over a gallery with gaps and mixed formats          *)
DiscNext ==
    \/ NextLoop
    \/ TryFormat
    \/ ReceiveCandidate
    \/ ReceiveEnd
    \/ \E i \in DOMAIN dom : RenderFinish(i)

DiscSpec == DiscInit /\ [][DiscNext]_vars

(* the pipeline, the clients of the registry and callers of the renderer   *)
ApiNext ==
    \/ NextLoop
    \/ TryFormat
    \/ ReceiveCandidate
    \/ ReceiveEnd
    \/ \E i \in DOMAIN dom : RenderFinish(i)
    \/ \E w \in WaiterIds, n \in WaitPages : WaitForPage(w, n)
    \/ \E n \in ApiPages, decoded \in BOOLEAN : RenderRequest(n, decoded)

ApiSpec == Init /\ [][ApiNext]_vars

(* --------------------- the stages of one tryFormat --------------------- *)

(* the HTTP statuses tryFormat tells apart: 200, 404, >= 500, any other    *)
FetchStatuses == {200, 404, 500, 403}

(* tryFormat up to its await of fetch: a controller of its own, its timer  *)
(* set; due = -1: the timer is cleared or has fired                        *)
NewAttempt(t) ==
    [startedAt |-> t, due |-> t + TIMEOUT_MS, stage |-> "fetch", status |-> 0,
     aborted |-> FALSE, abortedBy |-> {}, result |-> "pending"]

(* the AbortController the timer of attempt i aborts: the one created in   *)
(* the same call                                                           *)
ControllerOf(i) == i

(* fetch has resolved with a response: clearTimeout, then the status       *)
(* checks; only 200 goes on to response.blob()                             *)
AfterResponse(att, status) ==
    [att EXCEPT !.due = -1,
                !.status = status,
                !.stage = IF status = 200 THEN "body" ELSE "done",
                !.result = IF status = 200 THEN "pending" ELSE "absent"]

(* the catch block: clearTimeout, clean-up, a warning, return null         *)
AfterCatch(att) ==
    [att EXCEPT !.due = -1, !.stage = "done", !.result = "absent"]

(* the staged fetch leaves the rest of the program alone                   *)
FetchFrame ==
    /\ UNCHANGED <<pipelineCore, geomVars, laterCalls, debounceVars, deferVars,
                   discoverVars>>

FetchInit ==
    /\ present = {}
    /\ steady = TRUE
    /\ Start
    /\ NoHotspots
    /\ NoConfigLine
    /\ AnimStart
    /\ pageAnims = {}
    /\ animConfig = [a \in AnimClasses |-> DefaultConfig]

(* findImageCandidate calls tryFormat; the call before it has returned     *)
StartAttempt ==
    /\ Len(attempts) < MaxAttempts
    /\ attempts # <<>> => attempts[Len(attempts)].stage = "done"
    /\ now <= FetchHorizon
    /\ attempts' = Append(attempts, NewAttempt(now))
    /\ now' = now
    /\ FetchFrame

(* the response headers arrive                                             *)
FetchResponds(i, status) ==
    /\ attempts[i].stage = "fetch"
    /\ attempts' = [attempts EXCEPT ![i] = AfterResponse(@, status)]
    /\ now' = now
    /\ FetchFrame

(* fetch rejects with a network error                                      *)
FetchRejects(i) ==
    /\ attempts[i].stage = "fetch"
    /\ attempts' = [attempts EXCEPT ![i] = AfterCatch(@)]
    /\ now' = now
    /\ FetchFrame

(* the timer of attempt i fires: abort() on its controller; the pending    *)
(* fetch or body read of the call that owns the controller rejects with an *)
(* AbortError, which its catch block turns into null                       *)
TimerFires(i) ==
    /\ attempts[i].due = now
    /\ LET c == ControllerOf(i)
           gone == [attempts EXCEPT ![i].due = -1]
       IN  attempts' =
              [gone EXCEPT ![c] =
                  IF @.stage \in {"fetch", "body"}
                  THEN [AfterCatch(@) EXCEPT !.aborted = TRUE,
                                            !.abortedBy = @ \cup {i}]
                  ELSE [@ EXCEPT !.aborted = TRUE, !.abortedBy = @ \cup {i}]]
    /\ now' = now
    /\ FetchFrame

(* response.blob() settles: the body has arrived, or the read failed       *)
BodySettles(i, ok) ==
    /\ attempts[i].stage = "body"
    /\ attempts' = [attempts EXCEPT ![i] =
                       IF ok THEN [@ EXCEPT !.stage = "decode"] ELSE AfterCatch(@)]
    /\ now' = now
    /\ FetchFrame

(* the decode promise settles: onload with a complete image, or onerror    *)
DecodeSettles(i, ok) ==
    /\ attempts[i].stage = "decode"
    /\ attempts' = [attempts EXCEPT ![i] =
                       IF ok THEN [@ EXCEPT !.stage = "done", !.result = "found"]
                       ELSE AfterCatch(@)]
    /\ now' = now
    /\ FetchFrame

(* the instants of the pending abort timers                                *)
FetchDues == {attempts[i].due : i \in DOMAIN attempts} \ {-1}

(* time passes, up to the next due timer: to that instant or by a slice    *)
FetchTick(t) ==
    /\ t > now
    /\ IF FetchDues # {}
       THEN /\ \A d \in FetchDues : t <= d
            /\ t \in FetchDues \/ t = now + FetchSlice
       ELSE t = now + FetchSlice /\ t <= FetchHorizon + TIMEOUT_MS
    /\ now' = t
    /\ UNCHANGED attempts
    /\ FetchFrame

FetchNext ==
    \/ StartAttempt
    \/ \E i \in DOMAIN attempts, status \in FetchStatuses : FetchResponds(i, status)
    \/ \E i \in DOMAIN attempts : FetchRejects(i)
    \/ \E i \in DOMAIN attempts : TimerFires(i)
    \/ \E i \in DOMAIN attempts, ok \in BOOLEAN : BodySettles(i, ok)
    \/ \E i \in DOMAIN attempts, ok \in BOOLEAN : DecodeSettles(i, ok)
    \/ \E t \in FetchDues \cup {now + FetchSlice} : FetchTick(t)

FetchSpec == FetchInit /\ [][FetchNext]_vars

(* the browser runs a due timer, settles the decode of a blob it holds and *)
(* lets time pass; the network owes nothing                                *)
FetchLiveSpec ==
    /\ FetchSpec
    /\ WF_vars(\E i \in DOMAIN attempts : TimerFires(i))
    /\ WF_vars(\E i \in DOMAIN attempts, ok \in BOOLEAN : DecodeSettles(i, ok))
    /\ WF_vars(\E t \in FetchDues \cup {now + FetchSlice} : FetchTick(t))

(* ------------------ resize and orientation handlers -------------------- *)

(* DOM.debounce: the timer of the call before is cleared, a new one is set *)
debounce(timers, t, wait) ==
    {tm \in timers : tm.kind # "resize"}
        \cup {[kind |-> "resize", due |-> t + wait, seq |-> 0]}

(* the orientationchange listener: one more setTimeout, none cleared; seq  *)
(* tells the timers of two events apart                                    *)
orientationTimer(timers, t, seq) ==
    timers \cup {[kind |-> "orientation", due |-> t + ORIENTATION_CHANGE_DELAY_MS,
                  seq |-> seq]}

(* history: one more event at instant t; the events are one burst as long  *)
(* as every gap is shorter than the debounce window                        *)
LogAfterEvent(log, t, isOrientation) ==
    [log EXCEPT !.events = @ + 1,
                !.orientations = IF isOrientation THEN @ + 1 ELSE @,
                !.lastEvent = t,
                !.burst = @ /\ (log.lastEvent < 0
                                  \/ t - log.lastEvent < RESIZE_DEBOUNCE_MS)]

DebounceFrame ==
    /\ UNCHANGED <<pipelineCore, geomVars, laterCalls, fetchVars, deferVars,
                   discoverVars>>

DebounceInit == FetchInit

(* a resize event: the debounced handler runs                              *)
ResizeEvent ==
    /\ repositionLog.events < MaxEvents
    /\ now <= DebounceHorizon
    /\ repositionTimers' = debounce(repositionTimers, now, RESIZE_DEBOUNCE_MS)
    /\ repositionLog' = LogAfterEvent(repositionLog, now, FALSE)
    /\ now' = now
    /\ DebounceFrame

(* an orientationchange event                                              *)
OrientationEvent ==
    /\ repositionLog.events < MaxEvents
    /\ now <= DebounceHorizon
    /\ repositionTimers' =
          orientationTimer(repositionTimers, now, repositionLog.events + 1)
    /\ repositionLog' = LogAfterEvent(repositionLog, now, TRUE)
    /\ now' = now
    /\ DebounceFrame

(* a due timer runs repositionAllHotspots                                  *)
RepositionFires(tm) ==
    /\ tm.due = now
    /\ repositionTimers' = repositionTimers \ {tm}
    /\ repositionLog' = [repositionLog EXCEPT !.passes = @ + 1, !.lastPass = now]
    /\ now' = now
    /\ DebounceFrame

RepositionDues == {tm.due : tm \in repositionTimers}

(* time passes, up to the next due timer: to that instant or by a slice    *)
DebounceTick(t) ==
    /\ t > now
    /\ IF RepositionDues # {}
       THEN /\ \A d \in RepositionDues : t <= d
            /\ t \in RepositionDues \/ t = now + DebounceSlice
       ELSE t = now + DebounceSlice /\ t <= DebounceHorizon
    /\ now' = t
    /\ UNCHANGED debounceVars
    /\ DebounceFrame

DebounceNext ==
    \/ ResizeEvent
    \/ OrientationEvent
    \/ \E tm \in repositionTimers : RepositionFires(tm)
    \/ \E t \in RepositionDues \cup {now + DebounceSlice} : DebounceTick(t)

DebounceSpec == DebounceInit /\ [][DebounceNext]_vars

(* ------------------- next() after end-of-sequence ---------------------- *)

(* galleries of the later-call runs: page 1, and the first page behind a   *)
(* gap of MAX_CONSECUTIVE_FAILURES absent pages                            *)
LaterPages == {1, MAX_CONSECUTIVE_FAILURES + 2}

LaterInit ==
    /\ present \in SUBSET LaterPages
    /\ steady = TRUE
    /\ Start
    /\ NoHotspots
    /\ NoConfigLine
    /\ AnimStart
    /\ pageAnims = {}
    /\ animConfig = [a \in AnimClasses |-> DefaultConfig]

(* a holder of the loader calls next() again after the pipeline has        *)
(* received null from it: the call enters the while loop of next()         *)
NextAgain ==
    /\ pc = "done"
    /\ laterCalls < MaxLaterCalls
    /\ laterCalls' = laterCalls + 1
    /\ pc' = "next"
    /\ UNCHANGED <<animVars, hotspotVars, navs, pureVars, startup, fetchVars,
                   debounceVars, deferVars, discoverVars>>
    /\ UNCHANGED <<present, steady, nextPage, consecutiveFailures, foundAny,
                   loadedCount, preferredFormat, pageToCheck, attemptedFormats,
                   fmtIdx, probed, lastOutcome, phase, candidate, curSlot,
                   loadedImages, pagesInFlight, allPagesLoaded,
                   maxLoadedPageNumber, pageReadyResolvers, dom,
                   galleryFallback, waiters, apiRenders, loaderVisible>>

(* that call returns, with a page or with null                             *)
LaterReturn ==
    /\ laterCalls > 0
    /\ pc \in {"yield", "eos"}
    /\ pc' = "done"
    /\ candidate' = NoData
    /\ UNCHANGED sideVars
    /\ UNCHANGED <<present, steady, loaderVars, phase, curSlot, loadedImages,
                   pagesInFlight, allPagesLoaded, maxLoadedPageNumber,
                   pageReadyResolvers, dom, galleryFallback, waiters,
                   apiRenders, loaderVisible>>

(* the pipeline, and later calls of next() on its loader                   *)
LaterNext ==
    \/ NextLoop
    \/ TryFormat
    \/ laterCalls = 0 /\ ReceiveCandidate
    \/ laterCalls = 0 /\ ReceiveEnd
    \/ \E i \in DOMAIN dom : RenderFinish(i)
    \/ NextAgain
    \/ LaterReturn

LaterSpec == LaterInit /\ [][LaterNext]_vars

(* -------------------------- hotspot configs ---------------------------- *)

(* a gallery whose files all load, and a hotspot file whose request is     *)
(* under way when the pipeline starts                                      *)
HotspotInit ==
    /\ present \in SUBSET (1..ClientPages)
    /\ steady = TRUE
    /\ Start
    /\ NoConfigLine
    /\ hotspotFile \in [HotspotPages -> 0..MaxHotspots]
    /\ hotspotLoad = "pending"
    /\ hotspotConfigsByPage = [n \in HotspotPages |-> 0]
    /\ AnimStart
    /\ pageAnims = {}
    /\ animConfig = [a \in AnimClasses |-> DefaultConfig]

(* loadHotspotConfigs resumes with the response: parseHotspotConfig fills  *)
(* the map from the lines of the file, or the file is missing and the map  *)
(* stays empty                                                             *)
HotspotConfigsLoaded(ok) ==
    /\ hotspotLoad = "pending"
    /\ IF ok
       THEN /\ hotspotConfigsByPage' = hotspotFile
            /\ hotspotLoad' = "done"
       ELSE /\ hotspotLoad' = "failed"
            /\ UNCHANGED hotspotConfigsByPage
    /\ UNCHANGED <<hotspotFile, animVars, navs, pureVars, startup, extraVars>>
    /\ UNCHANGED <<present, steady, loaderVars, pc, phase, candidate, curSlot,
                   loadedImages, pagesInFlight, allPagesLoaded,
                   maxLoadedPageNumber, pageReadyResolvers, dom,
                   galleryFallback, waiters, apiRenders, loaderVisible>>

(* the pipeline while the hotspot file is being fetched                    *)
HotspotNext ==
    \/ NextLoop
    \/ TryFormat
    \/ ReceiveCandidate
    \/ ReceiveEnd
    \/ \E i \in DOMAIN dom : RenderFinish(i)
    \/ \E ok \in BOOLEAN : HotspotConfigsLoaded(ok)

HotspotSpec == HotspotInit /\ [][HotspotNext]_vars

(* ----------------------------- navigation ------------------------------ *)

(* the argument check of handlePageNavigationRequest                       *)
ValidPageNumber(input) == input.isInteger /\ ~(input.value < 1)

(* what handlePageNavigationRequest does with the value its await of        *)
(* waitForPageReady gave it                                                 *)
NavOutcome(value, n) ==
    IF value # NullHandle THEN "scrolled"
    ELSE IF allPagesLoaded /\ n > maxLoadedPageNumber THEN "notfound"
    ELSE "silent"

(* the request after its await: the outcome, and the overlay it had shown  *)
(* is hidden on every path (hideGlobalLoader with the message, or the       *)
(* finally block)                                                           *)
FinishedNav(nav, value) ==
    [nav EXCEPT !.status = "done",
                !.result = NavOutcome(value, nav.input.value),
                !.target = value]

(* handlePageNavigationRequest(input) as call k, up to its return or to    *)
(* its await of waitForPageReady: the requests, the promises, the registry *)
(* and the overlay afterwards. A promise that is resolved at the call lets *)
(* the request run to its end.                                             *)
handlePageNavigationRequest(k, input) ==
    LET n == input.value
        existingPage == QueryPage(dom, n)
        r == waitForPageReady(k, n)
        asked == [navs[k] EXCEPT !.input = input]
        untouched == [navs |-> navs, waiters |-> waiters,
                      resolvers |-> pageReadyResolvers, loader |-> loaderVisible]
    IN
    IF ~ValidPageNumber(input)
    THEN [untouched EXCEPT !.navs = [navs EXCEPT ![k] =
                          [asked EXCEPT !.status = "done", !.result = "noop"]]]
    ELSE IF existingPage # 0 /\ ~dom[existingPage].loading
    THEN [untouched EXCEPT !.navs = [navs EXCEPT ![k] =
                          [asked EXCEPT !.status = "done", !.result = "scrolled",
                                        !.target = existingPage]]]
    ELSE IF r.waiters[k].status = "resolved"
    THEN [navs |-> [navs EXCEPT ![k] =
                      FinishedNav([asked EXCEPT !.showed = TRUE], r.waiters[k].value)],
          waiters |-> r.waiters, resolvers |-> r.resolvers, loader |-> FALSE]
    ELSE [navs |-> [navs EXCEPT ![k] =
                      [asked EXCEPT !.status = "waiting", !.showed = TRUE]],
          waiters |-> r.waiters, resolvers |-> r.resolvers, loader |-> TRUE]

(* a request that marked its page as being in flight                       *)
InFlightWithRequestedPage(inFlight, n) == inFlight \cup {n}

(* the in-flight set after handlePageNavigationRequest(n): the request and  *)
(* waitForPageReady read the DOM and the allPagesLoaded flag and write only *)
(* the registry                                                            *)
InFlightAfterNavigation(inFlight, n) == inFlight

(* the page numbers a location hash #page-<digits> can name                *)
HashInputs == {input \in NavInputs : input.isInteger /\ input.value >= 0}

(* the DOMContentLoaded handler after its await of initializePortfolioPages: *)
(* setupHashNavigation installs the listener and handles the hash the page  *)
(* was opened with, if it has one, as request 1. The handler resumes when   *)
(* the first page is rendered or when no page was found; the model lets it  *)
(* resume at any time from then on.                                         *)
SetupHashNavigation(hasHash, input) ==
    /\ startup = "running"
    /\ phase = "bg" \/ pc = "done"
    /\ startup' = "hash"
    /\ IF hasHash
       THEN LET r == handlePageNavigationRequest(1, input) IN
            /\ navs' = r.navs
            /\ waiters' = r.waiters
            /\ pageReadyResolvers' = r.resolvers
            /\ loaderVisible' = r.loader
       ELSE UNCHANGED <<navs, waiters, pageReadyResolvers, loaderVisible>>
    /\ UNCHANGED <<animVars, hotspotVars, pureVars, extraVars>>
    /\ UNCHANGED <<present, steady, loaderVars, pc, phase, candidate, curSlot,
                   loadedImages, pagesInFlight, allPagesLoaded,
                   maxLoadedPageNumber, dom, galleryFallback, apiRenders>>

(* the finally block of the DOMContentLoaded handler, in the same task as  *)
(* setupHashNavigation: hideGlobalLoader()                                 *)
StartupFinally ==
    /\ startup = "hash"
    /\ startup' = "finished"
    /\ loaderVisible' = FALSE
    /\ UNCHANGED <<animVars, hotspotVars, navs, pureVars, extraVars>>
    /\ UNCHANGED <<present, steady, loaderVars, pc, phase, candidate, curSlot,
                   loadedImages, pagesInFlight, allPagesLoaded,
                   maxLoadedPageNumber, pageReadyResolvers, dom,
                   galleryFallback, waiters, apiRenders>>

(* a hashchange event or a navigateToPortfolioPage call, once               *)
(* setupHashNavigation has installed them: handlePageNavigationRequest(input) *)
NavRequest(k, input) ==
    /\ startup = "finished"
    /\ navs[k].status = "idle"
    /\ \A j \in NavIds : j < k => navs[j].status # "idle"
    /\ LET r == handlePageNavigationRequest(k, input) IN
       /\ navs' = r.navs
       /\ waiters' = r.waiters
       /\ pageReadyResolvers' = r.resolvers
       /\ loaderVisible' = r.loader
    /\ pagesInFlight' = InFlightAfterNavigation(pagesInFlight, input.value)
    /\ UNCHANGED <<animVars, hotspotVars, pureVars, startup, extraVars>>
    /\ UNCHANGED <<present, steady, loaderVars, pc, phase, candidate, curSlot,
                   loadedImages, allPagesLoaded,
                   maxLoadedPageNumber, dom, galleryFallback, apiRenders>>

(* handlePageNavigationRequest resumes after its await                      *)
NavResume(k) ==
    /\ startup = "finished"
    /\ navs[k].status = "waiting"
    /\ waiters[k].status = "resolved"
    /\ navs' = [navs EXCEPT ![k] = FinishedNav(@, waiters[k].value)]
    /\ loaderVisible' = FALSE
    /\ UNCHANGED <<animVars, hotspotVars, pureVars, startup, extraVars>>
    /\ UNCHANGED <<present, steady, loaderVars, pc, phase, candidate, curSlot,
                   loadedImages, pagesInFlight, allPagesLoaded,
                   maxLoadedPageNumber, pageReadyResolvers, dom,
                   galleryFallback, waiters, apiRenders>>

(* the pipeline and the navigation requests made while it runs             *)
NavNext ==
    \/ NextLoop
    \/ TryFormat
    \/ ReceiveCandidate
    \/ ReceiveEnd
    \/ \E i \in DOMAIN dom : RenderFinish(i)
    \/ \E hasHash \in BOOLEAN, input \in HashInputs : SetupHashNavigation(hasHash, input)
    \/ StartupFinally
    \/ \E k \in NavIds, input \in NavInputs : NavRequest(k, input)
    \/ \E k \in NavIds : NavResume(k)

NavSpec == Init /\ [][NavNext]_vars

(* ------------------------- config line parsing ------------------------- *)

(* one line of the animation config file, split into its parts             *)
ParseInit ==
    /\ present = {}
    /\ steady = TRUE
    /\ Start
    /\ NoHotspots
    /\ cfgLine \in ConfigLines
    /\ parsed = Unparsed
    /\ NoHotspotElement
    /\ AnimStart
    /\ pageAnims = {}
    /\ animConfig = [a \in AnimClasses |-> DefaultConfig]

(* parseAnimationConfig handles the line                                   *)
ParseLine ==
    /\ parsed.status = "unparsed"
    /\ parsed' = parseAnimationConfig(cfgLine)
    /\ UNCHANGED <<cfgLine, geomVars, animVars, hotspotVars, navs, startup,
                   extraVars>>
    /\ UNCHANGED <<present, steady, loaderVars, pc, phase, candidate, curSlot,
                   loadedImages, pagesInFlight, allPagesLoaded,
                   maxLoadedPageNumber, pageReadyResolvers, dom,
                   galleryFallback, waiters, apiRenders, loaderVisible>>

ParseNext == ParseLine

ParseSpec == ParseInit /\ [][ParseNext]_vars

(* ------------------------- hotspot positioning ------------------------- *)

(* one hotspot element on a loaded image, in a window of some width        *)
GeomInit ==
    /\ present = {}
    /\ steady = TRUE
    /\ Start
    /\ NoHotspots
    /\ cfgLine = <<>>
    /\ parsed = Unparsed
    /\ hsConfig \in HotspotConfigs
    /\ \E nat \in NaturalSizes, img \in RenderedSizes :
         imgDims = [naturalWidth |-> nat[1], naturalHeight |-> nat[2],
                    imageWidth |-> img[1], imageHeight |-> img[2]]
    /\ innerWidth \in ViewportWidths
    /\ HotspotElement
    /\ AnimStart
    /\ pageAnims = {}
    /\ animConfig = [a \in AnimClasses |-> DefaultConfig]

(* positionHotspot for the element: from attachHotspotsToPage, or from     *)
(* repositionAllHotspots after a render or a resize                        *)
PositionPass ==
    /\ imgDims.imageWidth > 0
    /\ hsStyle' = positionHotspot(hsStyle, hsConfig, imgDims, innerWidth)
    /\ styledFor' = [imageWidth |-> imgDims.imageWidth,
                     imageHeight |-> imgDims.imageHeight,
                     innerWidth |-> innerWidth]
    /\ passes' = IF passes < MaxPasses THEN passes + 1 ELSE passes
    /\ UNCHANGED <<hsConfig, imgDims, innerWidth>>
    /\ UNCHANGED <<cfgLine, parsed, animVars, hotspotVars, navs, startup,
                   extraVars>>
    /\ UNCHANGED <<present, steady, loaderVars, pc, phase, candidate, curSlot,
                   loadedImages, pagesInFlight, allPagesLoaded,
                   maxLoadedPageNumber, pageReadyResolvers, dom,
                   galleryFallback, waiters, apiRenders, loaderVisible>>

(* the window is resized: the image is laid out anew                       *)
Resize(img, width) ==
    /\ imgDims.imageWidth > 0
    /\ <<img[1], img[2], width>> # <<imgDims.imageWidth, imgDims.imageHeight, innerWidth>>
    /\ imgDims' = [imgDims EXCEPT !.imageWidth = img[1], !.imageHeight = img[2]]
    /\ innerWidth' = width
    /\ passes' = 0
    /\ UNCHANGED <<hsConfig, hsStyle, styledFor>>
    /\ UNCHANGED <<cfgLine, parsed, animVars, hotspotVars, navs, startup,
                   extraVars>>
    /\ UNCHANGED <<present, steady, loaderVars, pc, phase, candidate, curSlot,
                   loadedImages, pagesInFlight, allPagesLoaded,
                   maxLoadedPageNumber, pageReadyResolvers, dom,
                   galleryFallback, waiters, apiRenders, loaderVisible>>

GeomNext ==
    \/ PositionPass
    \/ \E img \in RenderedSizes, width \in ViewportWidths : Resize(img, width)

GeomSpec == GeomInit /\ [][GeomNext]_vars

(* ------------------------ deferred positioning ------------------------- *)

(* one hotspot element on a page whose image has not loaded yet            *)
DeferInit ==
    /\ present = {}
    /\ steady = TRUE
    /\ Start
    /\ NoHotspots
    /\ cfgLine = <<>>
    /\ parsed = Unparsed
    /\ hsConfig \in HotspotConfigs
    /\ \E nat \in NaturalSizes, img \in RenderedSizes :
         imgDims = [naturalWidth |-> nat[1], naturalHeight |-> nat[2],
                    imageWidth |-> img[1], imageHeight |-> img[2]]
    /\ innerWidth \in ViewportWidths
    /\ hsStyle = NoStyle
    /\ styledFor = NoPass
    /\ passes = 0
    /\ imgComplete = FALSE
    /\ loadListeners = 0
    /\ deferLog = NoDeferLog
    /\ AnimStart
    /\ pageAnims = {}
    /\ animConfig = [a \in AnimClasses |-> DefaultConfig]

(* positionHotspot while img.complete is false: a once-only load listener  *)
(* is added and the call returns                                           *)
DeferPosition ==
    /\ ~imgComplete
    /\ deferLog.deferred < MaxDeferred
    /\ loadListeners' = loadListeners + 1
    /\ deferLog' = [deferLog EXCEPT !.deferred = @ + 1]
    /\ UNCHANGED <<imgComplete, geomVars>>
    /\ UNCHANGED <<pipelineCore, now, laterCalls, fetchVars, debounceVars,
                   discoverVars>>

(* the image fires load: every listener added so far runs positionHotspot  *)
(* and is removed                                                          *)
ImageLoads ==
    /\ ~imgComplete
    /\ imgComplete' = TRUE
    /\ loadListeners' = 0
    /\ deferLog' = [deferLog EXCEPT !.runsOnLoad = loadListeners]
    /\ hsStyle' = IF loadListeners > 0
                  THEN positionHotspot(hsStyle, hsConfig, imgDims, innerWidth)
                  ELSE hsStyle
    /\ styledFor' = IF loadListeners > 0
                    THEN [imageWidth |-> imgDims.imageWidth,
                          imageHeight |-> imgDims.imageHeight,
                          innerWidth |-> innerWidth]
                    ELSE styledFor
    /\ passes' = IF passes + loadListeners < MaxPasses
                 THEN passes + loadListeners ELSE MaxPasses
    /\ UNCHANGED <<hsConfig, imgDims, innerWidth>>
    /\ UNCHANGED <<pipelineCore, now, laterCalls, fetchVars, debounceVars,
                   discoverVars>>

DeferNext ==
    \/ DeferPosition
    \/ ImageLoads
    \/ imgComplete /\ PositionPass

DeferSpec == DeferInit /\ [][DeferNext]_vars

(* -------------------------- hotspot discovery -------------------------- *)

(* the observer callback for an intersecting page: the timer of the        *)
(* animation is set unless the hotspot is in animatedHotspots              *)
TimersOfEntry(timers, animated, t, seq) ==
    IF animated THEN timers
    ELSE timers \cup {[kind |-> "add", due |-> t + DISCOVERY_DELAY, seq |-> seq]}

(* the callback of the outer timer: the class and the set entry are added, *)
(* the removal is scheduled; of the inner timer: the class is removed      *)
DiscoveryAfterTimer(d, kind) ==
    IF kind = "add"
    THEN [d EXCEPT !.discover = TRUE,
                   !.animated = TRUE,
                   !.calls = @ + 1,
                   !.adds = IF d.discover THEN @ ELSE @ + 1]
    ELSE [d EXCEPT !.discover = FALSE]

DiscoverFrame ==
    /\ UNCHANGED <<pipelineCore, geomVars, laterCalls, fetchVars, debounceVars,
                   deferVars>>

DiscoverInit == FetchInit

(* the page of the hotspot enters the viewport                             *)
PageEnters ==
    /\ discovery.entries < MaxEntries
    /\ now <= DiscoverHorizon
    /\ discoverTimers' = TimersOfEntry(discoverTimers, discovery.animated, now,
                                       discovery.entries + 1)
    /\ discovery' = [discovery EXCEPT !.entries = @ + 1]
    /\ now' = now
    /\ DiscoverFrame

(* a due timer of the discovery animation runs                             *)
DiscoverFires(tm) ==
    /\ tm.due = now
    /\ discoverTimers' =
          (discoverTimers \ {tm})
             \cup (IF tm.kind = "add"
                   THEN {[kind |-> "remove",
                          due |-> now + DISCOVERY_ANIMATION_DURATION,
                          seq |-> tm.seq]}
                   ELSE {})
    /\ discovery' = DiscoveryAfterTimer(discovery, tm.kind)
    /\ now' = now
    /\ DiscoverFrame

DiscoverDues == {tm.due : tm \in discoverTimers}

(* time passes, up to the next due timer: to that instant or by a slice    *)
DiscoverTick(t) ==
    /\ t > now
    /\ IF DiscoverDues # {}
       THEN /\ \A d \in DiscoverDues : t <= d
            /\ t \in DiscoverDues \/ t = now + DiscoverSlice
       ELSE t = now + DiscoverSlice /\ t <= DiscoverHorizon
    /\ now' = t
    /\ UNCHANGED discoverVars
    /\ DiscoverFrame

DiscoverNext ==
    \/ PageEnters
    \/ \E tm \in discoverTimers : DiscoverFires(tm)
    \/ \E t \in DiscoverDues \cup {now + DiscoverSlice} : DiscoverTick(t)

DiscoverSpec == DiscoverInit /\ [][DiscoverNext]_vars

(* ------------------------- animation actions --------------------------- *)
(* (the run of the pipeline with its clients and engines follows them)     *)

(* attachAnimationsToPage: the elements are created and appended, then     *)
(* registerPageForAnimationVisibility runs; isVisible = the page is in the *)
(* viewport at that moment                                                 *)
AttachAnimations(isVisible) ==
    /\ ~registered
    /\ registered' = TRUE
    /\ hoverListener' = (\E a \in pageAnims : animConfig[a].triggerType = "hover")
    /\ LET created == [a \in AnimClasses |->
                          IF a \in pageAnims THEN createAnimationElement(a)
                          ELSE NoElement]
           hasVisibleTriggers ==
               \E a \in pageAnims : animConfig[a].triggerType = "visible"
       IN
       IF hasVisibleTriggers /\ isVisible /\ ~AlreadyTriggered(triggeredPages, "visible")
       THEN LET r == startPageAnimations(created, animLog, "visible", now) IN
            /\ animEl' = r.els
            /\ animTimers' = animTimers \cup r.timers
            /\ animLog' = r.log
            /\ triggeredPages' = triggeredPages \cup {"visible"}
            /\ observed' = FALSE
       ELSE /\ animEl' = created
            /\ observed' = hasVisibleTriggers
            /\ UNCHANGED <<animTimers, animLog, triggeredPages>>
    /\ UNCHANGED <<now, pageAnims, animConfig, ignoredTriggers, pointerLog>>
    /\ UNCHANGED pipelineVars

(* a trigger of the given type reaches its guard                           *)
Trigger(type) ==
    IF ~AlreadyTriggered(triggeredPages, type)
    THEN LET r == startPageAnimations(animEl, animLog, type, now) IN
         /\ animEl' = r.els
         /\ animTimers' = animTimers \cup r.timers
         /\ animLog' = r.log
         /\ triggeredPages' = triggeredPages \cup {type}
         /\ UNCHANGED ignoredTriggers
    ELSE /\ ignoredTriggers' = ignoredTriggers \cup {type}
         /\ UNCHANGED <<animEl, animTimers, animLog, triggeredPages>>

(* the IntersectionObserver callback with an intersecting entry of the page *)
VisibleNotify ==
    /\ observed
    /\ Trigger("visible")
    /\ UNCHANGED <<now, pageAnims, animConfig, registered, observed, hoverListener,
                   pointerLog>>
    /\ UNCHANGED pipelineVars

(* mouseenter on the page; inView = the page is in the viewport            *)
PointerEnter(inView) ==
    /\ hoverListener
    /\ IF PointerEnterHandled(inView) THEN Trigger("hover")
       ELSE UNCHANGED <<animEl, animTimers, animLog, triggeredPages, ignoredTriggers>>
    /\ pointerLog' = IF inView THEN [pointerLog EXCEPT !.in = TRUE]
                     ELSE IF pointerLog.in THEN pointerLog
                     ELSE [pointerLog EXCEPT !.out = TRUE]
    /\ UNCHANGED <<now, pageAnims, animConfig, registered, observed, hoverListener>>
    /\ UNCHANGED pipelineVars

(* hidePageAnimation(pageNumber, a, permanent)                             *)
HideRequest(a, permanent) ==
    /\ registered
    /\ a \in pageAnims
    /\ IF HideAccepted(animEl[a])
       THEN /\ animEl' = [animEl EXCEPT ![a] = HidingElement(@)]
            /\ animTimers' = animTimers
                 \cup {[anim |-> a, kind |-> "frame", due |-> now]}
                 \cup (IF permanent
                       THEN {[anim |-> a, kind |-> "permanent",
                              due |-> now + HIDE_FADE_MS]}
                       ELSE {})
            /\ animLog' = [animLog EXCEPT ![a].fades = @ + 1,
                                          ![a].hideAt = now,
                                          ![a].timelinesAtHide = animLog[a].timelines]
       ELSE /\ animLog' = [animLog EXCEPT ![a].ignoredHide = TRUE]
            /\ UNCHANGED <<animEl, animTimers>>
    /\ UNCHANGED <<now, pageAnims, animConfig, registered, observed, hoverListener,
                   triggeredPages, ignoredTriggers, pointerLog>>
    /\ UNCHANGED pipelineVars

(* a due setTimeout or requestAnimationFrame callback runs                 *)
TimerFire(tm) ==
    /\ tm \in animTimers
    /\ tm.due <= now
    /\ animEl' = [animEl EXCEPT ![tm.anim] = ElementAfterTimer(@, tm.anim, tm.kind)]
    /\ animTimers' = (animTimers \ {tm}) \cup TimersOfTimer(tm.anim, tm.kind, now)
    /\ animLog' = [animLog EXCEPT ![tm.anim] =
                      LogAfterTimer(@, animEl[tm.anim], tm.kind, now)]
    /\ UNCHANGED <<now, pageAnims, animConfig, registered, observed, hoverListener,
                   triggeredPages, ignoredTriggers, pointerLog>>
    /\ UNCHANGED pipelineVars

(* time passes, up to the next due callback: to that instant or by a slice *)
Tick(t) ==
    /\ t > now
    /\ IF animTimers # {}
       THEN t <= NextDue /\ (t = NextDue \/ t = now + Slice)
       ELSE t = now + Slice /\ t <= Horizon
    /\ now' = t
    /\ UNCHANGED <<pageAnims, animConfig, animEl, animTimers, registered, observed,
                   hoverListener, triggeredPages, ignoredTriggers, animLog,
                   pointerLog>>
    /\ UNCHANGED pipelineVars

(* the animation engine of one rendered page                               *)
AnimNext ==
    \/ \E isVisible \in BOOLEAN : AttachAnimations(isVisible)
    \/ VisibleNotify
    \/ \E inView \in BOOLEAN : PointerEnter(inView)
    \/ \E a \in AnimClasses, permanent \in BOOLEAN : HideRequest(a, permanent)
    \/ \E tm \in animTimers : TimerFire(tm)
    \/ \E t \in {now + Slice} \cup {tm.due : tm \in animTimers} : Tick(t)

AnimSpec == AnimInit /\ [][AnimNext]_vars

(* ----------------- the pipeline with clients and engines --------------- *)

(* the page element is Ready: its render has returned with the image in    *)
(* place                                                                   *)
SlotReady(slot) == ~slot.running /\ ~slot.loading /\ ~slot.loadError

(* a gallery of two pages; the first page carries one hotspot and one      *)
(* animation, which are attached when its render has ended Ready           *)
FrameInit ==
    /\ present = {1, 2}
    /\ steady = TRUE
    /\ Start
    /\ NoHotspots
    /\ cfgLine = <<>>
    /\ parsed = Unparsed
    /\ hsConfig = [left |-> 10, bottom |-> 10, width |-> 2, height |-> 5]
    /\ imgDims = [naturalWidth |-> 1000, naturalHeight |-> 2000,
                  imageWidth |-> 100, imageHeight |-> 200]
    /\ innerWidth = 375
    /\ HotspotElement
    /\ AnimStart
    /\ pageAnims = {"animation-mouse"}
    /\ animConfig = [a \in AnimClasses |-> DefaultConfig]

FirstPageReady == dom # <<>> /\ SlotReady(dom[1])

(* the page of a request: the last page or the page behind it              *)
FrameInputs == {input \in NavInputs : input.isInteger /\ input.value \in {2, 3}}

FrameNext ==
    \/ NextLoop
    \/ TryFormat
    \/ ReceiveCandidate
    \/ ReceiveEnd
    \/ \E i \in DOMAIN dom : RenderFinish(i)
    \/ SetupHashNavigation(FALSE, [isInteger |-> TRUE, value |-> 0])
    \/ StartupFinally
    \/ \E input \in FrameInputs : NavRequest(1, input)
    \/ NavResume(1)
    \/ FirstPageReady /\ \E isVisible \in BOOLEAN : AttachAnimations(isVisible)
    \/ VisibleNotify
    \/ HideRequest("animation-mouse", TRUE)
    \/ \E tm \in animTimers : TimerFire(tm)
    \/ \E t \in {tm.due : tm \in animTimers} : Tick(t)
    \/ FirstPageReady /\ PositionPass

FrameSpec == FrameInit /\ [][FrameNext]_vars

(* ======================= navigation synchronizer ======================== *)

(* a promise that went through the registry, not resolved at the call      *)
Registered(w) ==
    \/ waiters[w].status = "pending"
    \/ waiters[w].status = "resolved" /\ ~waiters[w].immediate

(* page n has an element in the document whose render has returned         *)
RenderCompleted(d, n) ==
    \E i \in DOMAIN d : d[i].page = n /\ d[i].attached /\ ~d[i].running

(* C1: a waitForPage(n) call made before page n has finished rendering and  *)
(* before end-of-sequence returns a pending result; the result is resolved  *)
(* at most once; when the render of page n returns, the pending results for *)
(* n are resolved in that step with the element of page n; a result that    *)
(* went through the registry never holds an element whose render has not    *)
(* returned or that belongs to another page.                                *)
C1_PendingThenHandle ==
    /\ [](\A w \in WaiterIds :
            /\ waiters[w].calls <= 1
            /\ waiters[w].status = "pending" => waiters[w].calls = 0
            /\ (Registered(w) /\ waiters[w].status = "resolved"
                    /\ waiters[w].value # NullHandle)
                 => /\ waiters[w].value \in DOMAIN dom
                    /\ dom[waiters[w].value].page = waiters[w].page
                    /\ ~dom[waiters[w].value].running)
    /\ [][/\ \A w \in WaiterIds :
               (/\ waiters[w].status = "idle"
                /\ waiters'[w].status # "idle"
                /\ ~allPagesLoaded
                /\ ~RenderCompleted(dom, waiters'[w].page))
               => waiters'[w].status = "pending"
          /\ \A i \in DOMAIN dom :
               (i \in DOMAIN dom' /\ dom[i].running /\ ~dom'[i].running)
               => \A w \in WaiterIds :
                    (waiters[w].status = "pending" /\ waiters[w].page = dom[i].page)
                    => /\ waiters'[w].status = "resolved"
                       /\ waiters'[w].value = i
                       /\ waiters'[w].calls = 1
         ]_vars

(* C1 witness: a registered call for a page was resolved with that page's   *)
(* element after its render returned                                       *)
C1_Witness ==
    \E w \in WaiterIds :
        /\ Registered(w)
        /\ waiters[w].status = "resolved"
        /\ waiters[w].value # NullHandle
        /\ dom[waiters[w].value].page = waiters[w].page

(* C2: when next() returns null to the background loop, allPagesLoaded is   *)
(* set, every waiter still registered, whatever its page, is resolved with  *)
(* null, and the registry is left empty.                                    *)
C2_FlushAtEndOfSequence ==
    /\ [](pc = "done" /\ phase = "bg"
            => /\ allPagesLoaded
               /\ \A n \in DOMAIN pageReadyResolvers : pageReadyResolvers[n] = <<>>
               /\ \A w \in WaiterIds : waiters[w].status # "pending")
    /\ [][(pc = "eos" /\ phase = "bg" /\ pc' = "done")
            => \A w \in WaiterIds :
                 waiters[w].status = "pending"
                 => /\ waiters'[w].status = "resolved"
                    /\ waiters'[w].value = NullHandle
                    /\ waiters'[w].calls = 1
         ]_vars

(* C2 witness: the background loop has ended and waiters of two different   *)
(* pages were resolved with null by the flush                               *)
C2_Witness ==
    /\ pc = "done"
    /\ phase = "bg"
    /\ \E v, w \in WaiterIds :
         /\ waiters[v].page # waiters[w].page
         /\ Registered(v) /\ waiters[v].status = "resolved"
         /\ waiters[v].value = NullHandle
         /\ Registered(w) /\ waiters[w].status = "resolved"
         /\ waiters[w].value = NullHandle

C4_SamePageWaitersTogether ==
    /\ [](/\ \A w \in WaiterIds : waiters[w].calls <= 1
          /\ \A n \in DOMAIN pageReadyResolvers :
               \A k \in DOMAIN pageReadyResolvers[n] :
                 /\ waiters[pageReadyResolvers[n][k]].status = "pending"
                 /\ waiters[pageReadyResolvers[n][k]].page = n
                 /\ \A l \in DOMAIN pageReadyResolvers[n] :
                      pageReadyResolvers[n][k] = pageReadyResolvers[n][l] => k = l)
    /\ [][\A v, w \in WaiterIds :
            (/\ waiters[v].status = "pending"
             /\ waiters[w].status = "pending"
             /\ waiters[v].page = waiters[w].page
             /\ waiters'[v].status = "resolved")
            => /\ waiters'[w].status = "resolved"
               /\ waiters'[w].value = waiters'[v].value
               /\ pageReadyResolvers'[waiters[v].page] = <<>>
         ]_vars

(* C4 witness: two waiters of one page were resolved by its render, and the *)
(* flush at the end of the sequence has run since                           *)
C4_Witness ==
    /\ pc = "done"
    /\ \E v, w \in WaiterIds :
         /\ v # w
         /\ waiters[v].page = waiters[w].page
         /\ Registered(v) /\ Registered(w)
         /\ waiters[v].value # NullHandle
         /\ waiters[v].value = waiters[w].value
         /\ waiters[v].calls = 1 /\ waiters[w].calls = 1

(* ============================ render pipeline =========================== *)

Returned ==
    IF pc = "yield" THEN Append(loadedImages, candidate) ELSE loadedImages

(* the page number of the last page next() has returned, 0 before the first *)
LastReturnedPage ==
    IF Returned = <<>> THEN 0 ELSE Returned[Len(Returned)].pageNumber

(* the pages findImageCandidate has returned for, found or absent          *)
FinishedPages ==
    Range(probed) \ (IF pc = "probe" THEN {pageToCheck} ELSE {})

(* C7: the pages are probed 1, 2, 3, ... one number per step and each once; *)
(* every returned candidate carries the number of the page that was fetched *)
(* for it; the returned pages are, in increasing order, exactly the         *)
(* discoverable pages among those probed so far (with 1, 2, 4 discoverable  *)
(* and 3 absent: 1, 2, 4).                                                  *)
C7_ProbesInOrder ==
    /\ \A i \in DOMAIN probed : probed[i] = i
    /\ \A i \in DOMAIN Returned :
         /\ Returned[i].pageNumber = Returned[i].path[1]
         /\ Returned[i].pageNumber \in Range(probed)
    /\ \A i, j \in DOMAIN Returned :
         i < j => Returned[i].pageNumber < Returned[j].pageNumber
    /\ pc = "yield" => candidate.pageNumber = probed[Len(probed)]
    /\ {Returned[i].pageNumber : i \in DOMAIN Returned} = present \cap FinishedPages

(* C7 witness: discovery has ended after returning pages 1 and 3 across the *)
(* absent page 2                                                            *)
C7_Witness ==
    /\ pc = "done"
    /\ 2 \notin present
    /\ Len(loadedImages) = 2
    /\ loadedImages[1].pageNumber = 1
    /\ loadedImages[2].pageNumber = 3

(* C8 (as claimed): once a page has been found, next() returns null only    *)
(* with MAX_CONSECUTIVE_FAILURES consecutive absences counted               *)
C8_EndOnlyAtThreshold ==
    (pc = "eos" /\ foundAny) => consecutiveFailures = MAX_CONSECUTIVE_FAILURES

(* C8 (amended): next() returns null exactly when, a page having been       *)
(* found, the count of consecutive absences reaches the threshold, or when  *)
(* page MAX_PAGES has been probed; the count is the number of pages probed  *)
(* since the last found one; below the ceiling the last page probed is the  *)
(* last found page plus MAX_CONSECUTIVE_FAILURES, and no absent page is     *)
(* ever returned.                                                           *)
C8_EndAtThresholdOrCeiling ==
    /\ pc \in {"eos", "done"}
         => \/ foundAny /\ consecutiveFailures = MAX_CONSECUTIVE_FAILURES
            \/ nextPage > MAX_PAGES
    /\ (foundAny /\ consecutiveFailures >= MAX_CONSECUTIVE_FAILURES)
         => pc \in {"eos", "done"}
    /\ foundAny
         => consecutiveFailures =
              Cardinality({p \in FinishedPages : p > LastReturnedPage})
    /\ (pc \in {"eos", "done"} /\ foundAny
          /\ LastReturnedPage + MAX_CONSECUTIVE_FAILURES <= MAX_PAGES)
         => Len(probed) = LastReturnedPage + MAX_CONSECUTIVE_FAILURES
    /\ \A i \in DOMAIN Returned : Returned[i].pageNumber \in present

(* C8 witness: every low page is present, discovery has ended, and the last *)
(* page probed is MAX_CONSECUTIVE_FAILURES past the last present one        *)
C8_Witness ==
    /\ pc = "done"
    /\ present = 1..LowPages
    /\ Len(loadedImages) = LowPages
    /\ Len(probed) = LowPages + MAX_CONSECUTIVE_FAILURES

(* C9: for every page the preferred format, if one is set, is attempted     *)
(* first, then the other formats in FORMAT_PRIORITY order; no format is     *)
(* attempted twice for a page; a page is counted absent only after every    *)
(* configured format was attempted, and never while a format of it would    *)
(* have fetched and decoded.                                                *)
C9_FormatOrder ==
    [][/\ (attemptedFormats' # attemptedFormats /\ attemptedFormats' # <<>>)
          => \E f \in Formats :
               /\ attemptedFormats' = Append(attemptedFormats, f)
               /\ f \notin Range(attemptedFormats)
               /\ IF attemptedFormats = <<>> /\ preferredFormat # NoFormat
                  THEN f = preferredFormat
                  ELSE \E j \in DOMAIN FORMAT_PRIORITY :
                         /\ f = FORMAT_PRIORITY[j]
                         /\ \A k \in 1..(j - 1) :
                              FORMAT_PRIORITY[k] \in Range(attemptedFormats)
       /\ consecutiveFailures' = consecutiveFailures + 1
          => /\ Range(attemptedFormats') = Formats
             /\ Len(attemptedFormats') = Len(FORMAT_PRIORITY)
             /\ pageToCheck \notin present
      ]_vars

(* C9 witness: with webp preferred a page was counted absent after webp,    *)
(* avif and png had been attempted in that order                            *)
C9_Witness ==
    /\ pc = "next"
    /\ consecutiveFailures > 0
    /\ preferredFormat = "webp"
    /\ attemptedFormats = <<"webp", "avif", "png">>

(* C10: the preferred format is the format of the most recently found page, *)
(* and it is the first format attempted for every later page.               *)
C10_PreferredIsLastFound ==
    /\ Returned = <<>> => preferredFormat = NoFormat
    /\ Returned # <<>> => preferredFormat = Returned[Len(Returned)].format
    /\ (pc = "probe" /\ Returned # <<>> /\ attemptedFormats # <<>>)
         => attemptedFormats[1] = Returned[Len(Returned)].format

(* C10 witness: page 1 was found as webp, page 2 as png, and png is the     *)
(* first format attempted for page 3                                        *)
C10_Witness ==
    /\ Len(loadedImages) = 2
    /\ loadedImages[1].pageNumber = 1 /\ loadedImages[1].format = "webp"
    /\ loadedImages[2].pageNumber = 2 /\ loadedImages[2].format = "png"
    /\ pc = "probe"
    /\ pageToCheck = 3
    /\ attemptedFormats # <<>>
    /\ attemptedFormats[1] = "png"

(* =========================== error handling ============================= *)

(* C11: a format attempt that ends in anything but fetch-and-decode success *)
(* (404, status >= 500, another non-200 status, network error, timeout,     *)
(* decode failure) returns no candidate and raises nothing: discovery stays *)
(* on the same page and goes on with a format not yet attempted, or, when   *)
(* none is left, counts the page absent.                                    *)
C11_FailedAttemptFallsThrough ==
    /\ [](pc # "aborted")
    /\ [][(Len(attemptedFormats') = Len(attemptedFormats) + 1 /\ lastOutcome' # "ok")
            => /\ pc' \notin {"yield", "aborted"}
               /\ candidate' = candidate
               /\ loadedCount' = loadedCount
               /\ pageToCheck' = pageToCheck
               /\ IF Formats \ Range(attemptedFormats') # {}
                  THEN /\ pc' = "probe"
                       /\ CurrentFormat(fmtIdx', preferredFormat')
                            \notin Range(attemptedFormats')
                       /\ consecutiveFailures' = consecutiveFailures
                  ELSE /\ pc' \in {"next", "eos"}
                       /\ consecutiveFailures' = consecutiveFailures + 1
         ]_vars

(* C11 witness: the first format of a discoverable page timed out and       *)
(* discovery is about to attempt the next format of that page               *)
C11_Witness ==
    /\ pc = "probe"
    /\ pageToCheck \in present
    /\ lastOutcome = "timeout"
    /\ Len(attemptedFormats) = 1
    /\ CurrentFormat(fmtIdx, preferredFormat) # attemptedFormats[1]

(* C12: a render that fails is local. The step in which it returns marks    *)
(* the page element failed with the fallback in place, takes the page out   *)
(* of the in-flight set and resolves every waiter registered for the page   *)
(* with that element; the pipeline that awaited it goes on to the next      *)
(* loader.next(), so the following pages are still discovered and rendered. *)
(* The pipeline never aborts, and allPagesLoaded is set only once next()    *)
(* has returned null, at the absence threshold or at the MAX_PAGES ceiling. *)
C12_RenderFailureIsLocal ==
    /\ [](pc # "aborted")
    /\ [](allPagesLoaded
            => /\ pc = "done"
               /\ \/ foundAny /\ consecutiveFailures >= MAX_CONSECUTIVE_FAILURES
                  \/ nextPage > MAX_PAGES)
    /\ [][\A i \in DOMAIN dom :
            (dom[i].running /\ ~dom'[i].running /\ dom'[i].loadError)
              => /\ dom'[i].attached
                 /\ dom[i].page \notin pagesInFlight'
                 /\ pageReadyResolvers'[dom[i].page] = <<>>
                 /\ \A w \in Range(pageReadyResolvers[dom[i].page]) :
                      waiters'[w].status = "resolved" /\ waiters'[w].value = i
                 /\ (pc = "render" /\ i = curSlot)
                      => pc' = "next" /\ ~allPagesLoaded'
         ]_vars

(* C12 witness: the render of page 1 failed, its waiter got the element of  *)
(* page 1, and page 2 was discovered and rendered afterwards                *)
C12_Witness ==
    /\ Len(dom) = 2
    /\ dom[1].page = 1 /\ dom[1].loadError /\ ~dom[1].running
    /\ dom[2].page = 2 /\ ~dom[2].running /\ ~dom[2].loadError
    /\ \E w \in WaiterIds :
         /\ waiters[w].status = "resolved"
         /\ ~waiters[w].immediate
         /\ waiters[w].page = 1
         /\ waiters[w].value = 1

(* page n has an element in the document and renderPortfolioPage has        *)
(* returned for every element of page n                                     *)
PageSettled(d, n) ==
    /\ \E i \in DOMAIN d : d[i].page = n /\ d[i].attached
    /\ \A i \in DOMAIN d : (d[i].page = n /\ d[i].attached) => ~d[i].running

C14_PastTheEndIsNull ==
    [][\A w \in WaiterIds :
         (/\ waiters[w].status = "idle"
          /\ waiters'[w].status # "idle"
          /\ allPagesLoaded
          /\ \A i \in DOMAIN dom : dom[i].page < waiters'[w].page)
           => /\ waiters'[w].status = "resolved"
              /\ waiters'[w].immediate
              /\ waiters'[w].value = NullHandle
              /\ waiters'[w].calls = 1
              /\ pageReadyResolvers' = pageReadyResolvers
      ]_vars

(* C14 witness: every page of the gallery was rendered, end-of-sequence was *)
(* declared, and a call for the page after the last one got null at once    *)
C14_Witness ==
    /\ allPagesLoaded
    /\ present = 1..ClientPages
    /\ Len(dom) = ClientPages
    /\ \E w \in WaiterIds :
         /\ waiters[w].page = ClientPages + 1
         /\ waiters[w].status = "resolved"
         /\ waiters[w].immediate
         /\ waiters[w].value = NullHandle

(* ============================= termination ============================== *)

(* C15: while no page has been found the absence threshold does not stop    *)
(* discovery: every probed page is counted and next() returns null only     *)
(* after page MAX_PAGES was probed; the pipeline then shows the "no images" *)
(* fallback in the container, sets allPagesLoaded and has not started and   *)
(* never starts the background loop.                                        *)
C15_NothingFoundStopsAtCeiling ==
    /\ ~foundAny => consecutiveFailures = Cardinality(FinishedPages)
    /\ (~foundAny /\ pc \in {"eos", "done"})
         => /\ nextPage = MAX_PAGES + 1
            /\ Len(probed) = MAX_PAGES
            /\ consecutiveFailures = MAX_PAGES
    /\ (~foundAny /\ pc = "done")
         => /\ galleryFallback
            /\ allPagesLoaded
            /\ phase = "init"
            /\ loadedImages = <<>>
            /\ \A i \in DOMAIN dom : ~dom[i].attached
    /\ galleryFallback => (~foundAny /\ pc = "done")
    /\ phase = "bg" => foundAny

(* C15 witness: a gallery without pages, probed up to MAX_PAGES, with the   *)
(* fallback shown and allPagesLoaded set                                    *)
C15_Witness ==
    /\ present = {}
    /\ pc = "done"
    /\ ~foundAny
    /\ consecutiveFailures > MAX_CONSECUTIVE_FAILURES
    /\ Len(probed) = MAX_PAGES
    /\ galleryFallback
    /\ allPagesLoaded

(* ========================== animation timing ============================ *)

(* the callbacks of the given kind pending for element a                    *)
PendingTimers(a, kinds) ==
    {tm \in animTimers : tm.anim = a /\ tm.kind \in kinds}

(* C16: however many hide requests an animation element receives, one fade  *)
(* is started and one transition to hidden-permanent is made: a request     *)
(* that finds the element hiding or permanently hidden changes no element   *)
(* and schedules nothing, and only a request that finds it neither is       *)
(* accepted.                                                                *)
C16_HideIsIdempotent ==
    /\ [](\A a \in pageAnims :
            /\ animLog[a].fades <= 1
            /\ animLog[a].permanents <= 1
            /\ animLog[a].permanents
                 + Cardinality(PendingTimers(a, {"permanent"})) <= animLog[a].fades
            /\ Cardinality(PendingTimers(a, {"frame"})) <= 1
            /\ animEl[a].hiddenPermanent <=> animLog[a].permanents = 1)
    /\ [][\A a \in pageAnims :
            /\ (~animLog[a].ignoredHide /\ animLog'[a].ignoredHide)
                 => /\ animEl[a].hidden \/ animEl[a].hiddenPermanent
                    /\ animEl' = animEl
                    /\ animTimers' = animTimers
            /\ animLog'[a].fades # animLog[a].fades
                 => ~animEl[a].hidden /\ ~animEl[a].hiddenPermanent
         ]_vars

(* C16 witness: an element was hidden, a later hide request was ignored,    *)
(* and the element is permanently hidden after one fade                     *)
C16_Witness ==
    \E a \in pageAnims :
        /\ animLog[a].ignoredHide
        /\ animLog[a].fades = 1
        /\ animLog[a].permanents = 1
        /\ animEl[a].hiddenPermanent
        /\ ~animEl[a].hidden

(* C17 (as claimed): once the fade of an accepted hide request has begun,   *)
(* no callback of the timeline that was running at the time of the request  *)
(* gives the element an opacity above zero again                            *)
C17_HideOverridesTimeline ==
    \A a \in pageAnims :
        (/\ animLog[a].hideAt >= 0
         /\ animLog[a].timelinesAtHide >= 1
         /\ animLog[a].timelines = animLog[a].timelinesAtHide
         /\ PendingTimers(a, {"frame"}) = {})
          => animEl[a].opacity # "1"

(* C18: the animations of a page and trigger type get one timeline: once    *)
(* the key of the page and type is in triggeredPages, no step starts a      *)
(* timeline or schedules a timeline callback for an animation of that type, *)
(* and a trigger that finds the key changes no element and no timer.        *)
C18_TriggeredOnce ==
    /\ [](\A a \in pageAnims :
            /\ animLog[a].timelines <= 1
            /\ animLog[a].timelines = 1
                 => animConfig[a].triggerType \in triggeredPages)
    /\ [][/\ \A a \in pageAnims :
               animConfig[a].triggerType \in triggeredPages
                 => /\ animLog'[a].timelines = animLog[a].timelines
                    /\ PendingTimers(a, {"show", "pulseEnd", "exit", "remove", "fade"})'
                         \subseteq PendingTimers(a, {"show", "pulseEnd", "exit",
                                                     "remove", "fade"})
          /\ ignoredTriggers' # ignoredTriggers
               => animEl' = animEl /\ animTimers' = animTimers
         ]_vars

(* C18 witness: the timeline of an animation was started once and a later   *)
(* trigger of its type was ignored                                          *)
C18_Witness ==
    \E a \in pageAnims :
        /\ animLog[a].timelines = 1
        /\ animConfig[a].triggerType \in ignoredTriggers

(* the state of an element no hide request was made for                     *)
AnimRank(el) ==
    IF el.created /\ ~el.inDom THEN 3
    ELSE IF el.exiting \/ el.transition = "exit" THEN 2
    ELSE IF el.visibility = "visible" THEN 1
    ELSE 0

(* how long after its trigger an animation is detached                      *)
RemovalOffset(a, cfg) ==
    IF hasCustomAnimation(a) /\ cfg.duration > EXIT_DURATION
    THEN cfg.delay + cfg.duration
    ELSE cfg.delay + cfg.duration + FALLBACK_REMOVE_MS

(* C19: an animation element that receives no hide request moves through    *)
(* hidden (0), visible (1), exiting (2), removed (3) one state at a time    *)
(* and never back; it is hidden until its trigger and for delay ms after    *)
(* it, visible once the delay has passed, and detached once its removal     *)
(* callback is due.                                                         *)
C19_ForwardOnly ==
    /\ [](\A a \in pageAnims :
            animLog[a].hideAt = -1
              => /\ animLog[a].triggeredAt = -1 => AnimRank(animEl[a]) = 0
                 /\ AnimRank(animEl[a]) >= 1
                      => /\ animLog[a].triggeredAt >= 0
                         /\ now >= animLog[a].triggeredAt + animConfig[a].delay
                 /\ (/\ animLog[a].triggeredAt >= 0
                     /\ now > animLog[a].triggeredAt + animConfig[a].delay)
                      => AnimRank(animEl[a]) >= 1
                 /\ (/\ animLog[a].triggeredAt >= 0
                     /\ now > animLog[a].triggeredAt
                                + RemovalOffset(a, animConfig[a]))
                      => AnimRank(animEl[a]) = 3)
    /\ [][\A a \in pageAnims :
            animLog'[a].hideAt = -1
              => /\ AnimRank(animEl'[a]) >= AnimRank(animEl[a])
                 /\ AnimRank(animEl'[a]) <= AnimRank(animEl[a]) + 1
         ]_vars

(* C19 witness: a delayed animation without hide requests was shown, then   *)
(* began its exit, then was detached                                        *)
C19_Witness ==
    \E a \in pageAnims :
        /\ animLog[a].hideAt = -1 /\ ~animLog[a].ignoredHide
        /\ animConfig[a].delay > 0
        /\ AnimRank(animEl[a]) = 3
        /\ animLog[a].shownAt = animLog[a].triggeredAt + animConfig[a].delay
        /\ animLog[a].exitAt > animLog[a].shownAt
        /\ animLog[a].removedAt > animLog[a].exitAt

(* C20 (as claimed): every animation with a duration above EXIT_DURATION    *)
(* begins its exit delay + duration - EXIT_DURATION after its trigger and   *)
(* is detached at delay + duration                                          *)
C20_ExitAtDurationMinusExit ==
    \A a \in pageAnims :
        animConfig[a].duration > EXIT_DURATION
          => /\ animLog[a].exitAt >= 0
                  => animLog[a].exitAt = animLog[a].triggeredAt + animConfig[a].delay
                       + animConfig[a].duration - EXIT_DURATION
             /\ animLog[a].removedAt >= 0
                  => animLog[a].removedAt = animLog[a].triggeredAt
                       + animConfig[a].delay + animConfig[a].duration

(* C20 (amended): an animation with the custom entrance class and a         *)
(* duration above EXIT_DURATION begins its exit exactly                     *)
(* delay + duration - EXIT_DURATION after its trigger and is detached       *)
(* EXIT_DURATION later, at delay + duration; every other animation begins   *)
(* its fade at delay + duration and is detached FALLBACK_REMOVE_MS later.   *)
C20_ExitTiming ==
    \A a \in pageAnims :
        LET T == animLog[a].triggeredAt
            d == animConfig[a].delay
            D == animConfig[a].duration
            exitOffset == IF hasCustomAnimation(a) /\ D > EXIT_DURATION
                          THEN d + D - EXIT_DURATION ELSE d + D
            removeOffset == IF hasCustomAnimation(a) /\ D > EXIT_DURATION
                            THEN d + D ELSE d + D + FALLBACK_REMOVE_MS
        IN  /\ animLog[a].exitAt >= 0 => (T >= 0 /\ animLog[a].exitAt = T + exitOffset)
            /\ animLog[a].removedAt >= 0
                 => (T >= 0 /\ animLog[a].removedAt = T + removeOffset)
            /\ (T >= 0 /\ now > T + exitOffset) => animLog[a].exitAt = T + exitOffset
            /\ (T >= 0 /\ now > T + removeOffset)
                 => animLog[a].removedAt = T + removeOffset
            /\ (T >= 0 /\ now < T + exitOffset) => animLog[a].exitAt = -1
            /\ (T >= 0 /\ now < T + removeOffset) => animLog[a].removedAt = -1

(* C20 witness: a delayed custom animation of the long duration was         *)
(* detached delay + duration after its trigger, EXIT_DURATION after the     *)
(* start of its exit                                                        *)
C20_Witness ==
    \E a \in pageAnims :
        /\ hasCustomAnimation(a)
        /\ animConfig[a].delay > 0
        /\ animConfig[a].duration = LongDuration
        /\ animLog[a].removedAt = animLog[a].triggeredAt
             + animConfig[a].delay + animConfig[a].duration
        /\ animLog[a].exitAt = animLog[a].removedAt - EXIT_DURATION

(* =============================== hotspots =============================== *)

(* C21 (as claimed): every Ready page with hotspot configs for its page     *)
(* number ends up carrying one hotspot element per config, whether the      *)
(* hotspot file was loaded before or after the page was rendered; in its    *)
(* finite form: once the file is loaded and the pipeline has returned for   *)
(* good, every Ready page has as many hotspot elements as configs.          *)
C21_HotspotsForEveryReadyPage ==
    (hotspotLoad = "done" /\ pc = "done")
        => \A i \in DOMAIN dom :
             SlotReady(dom[i])
                => dom[i].hotspots = ConfigsFor(hotspotConfigsByPage, dom[i].page)

(* ============================= first render ============================= *)

(* C23: the first discovered page is completely rendered (Ready or Failed)  *)
(* before the initial loading indicator is hidden, and the background loop  *)
(* starts only after that render has completed: while the first render has  *)
(* not returned the indicator is shown, no second page is probed, returned  *)
(* or rendered, and the step that hides the indicator is the step in which  *)
(* the first render returns (or in which no page at all was found).         *)
C23_FirstRenderBeforeLoaderHidden ==
    /\ [](/\ phase = "init" => /\ Len(dom) <= 1
                               /\ Len(loadedImages) <= 1
                               /\ (pc # "done" => loaderVisible)
                               /\ (dom # <<>> => dom[1].running /\ pc = "render")
          /\ phase = "bg" => /\ dom # <<>>
                             /\ ~dom[1].running
                             /\ ~loaderVisible
          /\ ~loaderVisible => \/ dom # <<>> /\ ~dom[1].running
                               \/ pc = "done" /\ loadedImages = <<>>)
    /\ [][(loaderVisible /\ ~loaderVisible')
            => \/ /\ dom # <<>> /\ dom[1].running /\ ~dom'[1].running
                  /\ phase = "init" /\ phase' = "bg"
               \/ pc = "eos" /\ loadedImages = <<>>
         ]_vars

(* C23 witness: the first page is rendered, the indicator is hidden and the *)
(* background loop is rendering the second page                             *)
C23_Witness ==
    /\ phase = "bg"
    /\ ~loaderVisible
    /\ Len(dom) = 2
    /\ ~dom[1].running
    /\ dom[2].running

(* ============================== navigation ============================== *)

(* C22 (as claimed): a navigation request for an integer n >= 1 scrolls to  *)
(* page n at once if it is already rendered; otherwise it shows the loading *)
(* indicator, waits on waitForPage(n), then scrolls to the resolved page,   *)
(* or reports 'not found' whenever the result is null and the sequence is   *)
(* exhausted; the indicator it showed is hidden when the request finishes;  *)
(* a non-integer or n < 1 is a no-op.                                       *)
C22_NavigationOutcome ==
    [][\A k \in NavIds :
         LET input == navs'[k].input
             n == input.value
         IN
         /\ (navs[k].status = "idle" /\ navs'[k].status # "idle")
              => /\ ~(input.isInteger /\ n >= 1)
                      => /\ navs'[k].result = "noop"
                         /\ UNCHANGED <<loaderVisible, waiters, pageReadyResolvers>>
                 /\ (input.isInteger /\ n >= 1 /\ RenderCompleted(dom, n))
                      => /\ navs'[k].result = "scrolled"
                         /\ dom[navs'[k].target].page = n
                         /\ ~navs'[k].showed
                         /\ UNCHANGED <<loaderVisible, waiters, pageReadyResolvers>>
                 /\ (input.isInteger /\ n >= 1 /\ ~RenderCompleted(dom, n))
                      => /\ navs'[k].showed
                         /\ waiters'[k].page = n
                         /\ navs'[k].status = "waiting"
                              => loaderVisible' /\ waiters'[k].status = "pending"
         /\ (navs[k].status # "done" /\ navs'[k].status = "done"
                /\ navs'[k].showed)
              => /\ ~loaderVisible'
                 /\ waiters'[k].status = "resolved"
                 /\ waiters'[k].value # NullHandle
                      => /\ navs'[k].result = "scrolled"
                         /\ navs'[k].target = waiters'[k].value
                         /\ dom[navs'[k].target].page = n
                 /\ (waiters'[k].value = NullHandle /\ allPagesLoaded')
                      => navs'[k].result = "notfound"
      ]_vars

(* ============================ in-flight set ============================= *)

(* the page numbers whose render has begun and has not returned            *)
RunningPages == {dom[i].page : i \in {j \in DOMAIN dom : dom[j].running}}

(* C30: the in-flight set holds a page number exactly from the start of     *)
(* that page's render until its completion, on the success path and on the  *)
(* failure path alike; as the pipeline renders one page at a time the set   *)
(* never holds more than one number and is empty when no render is running. *)
C30_InFlightWhileRendering ==
    /\ [](/\ pagesInFlight = RunningPages
          /\ Cardinality(pagesInFlight) <= 1
          /\ Cardinality({j \in DOMAIN dom : dom[j].running}) <= 1
          /\ (pc # "render") => pagesInFlight = {})
    /\ [][/\ (pc = "yield" /\ pc' = "render")
               => /\ candidate.pageNumber \notin pagesInFlight
                  /\ pagesInFlight' = {candidate.pageNumber}
          /\ \A i \in DOMAIN dom :
               (dom[i].running /\ ~dom'[i].running)
               => /\ dom[i].page \in pagesInFlight
                  /\ dom[i].page \notin pagesInFlight'
         ]_vars

(* C30 witness: the render of the first page ended in the fallback, the set *)
(* was emptied and now holds the second page, which is being rendered       *)
C30_Witness ==
    /\ Len(dom) = 2
    /\ dom[1].loadError
    /\ ~dom[1].running
    /\ dom[2].running
    /\ pagesInFlight = {dom[2].page}

(* ============================ hover trigger ============================= *)

(* the animations of the page that wait for the hover trigger              *)
HoverAnims == {a \in pageAnims : animConfig[a].triggerType = "hover"}

(* C28: a pointer-enter on a page that is not in view starts no hover       *)
(* animation and does not use up the one-shot hover trigger; the first      *)
(* pointer-enter while the page is in view starts the hover animations of   *)
(* the page (every one that was not hidden for good before).                *)
C28_HoverNeedsPageInView ==
    /\ [](/\ ~pointerLog.in
              => /\ "hover" \notin triggeredPages
                 /\ \A a \in HoverAnims : animLog[a].timelines = 0
          /\ (pointerLog.in /\ hoverListener) => "hover" \in triggeredPages)
    /\ [][/\ (~pointerLog.out /\ pointerLog.out')
               => UNCHANGED <<animEl, animTimers, animLog, triggeredPages>>
          /\ (~pointerLog.in /\ pointerLog.in')
               => /\ "hover" \in triggeredPages'
                  /\ HoverAnims # {}
                  /\ \A a \in HoverAnims :
                       TimelineStarts(animEl[a])
                         => /\ animLog'[a].timelines = 1
                            /\ animLog'[a].triggeredAt = now
         ]_vars

(* C28 witness: a pointer-enter out of view came first and left the trigger *)
(* unused; the later pointer-enter in view started the hover animation      *)
C28_Witness ==
    /\ pointerLog.out
    /\ pointerLog.in
    /\ \E a \in HoverAnims : animLog[a].timelines = 1

(* ======================== animation config text ========================= *)

(* the line has the fields of the documented format, in its order          *)
(* pageNumber, iconRef, centerX%, centerY%, size%, durationMs[, delayMs[,   *)
(* triggerType]], all with valid values                                     *)
DocumentedLine(parts) ==
    /\ Len(parts) \in 6..8
    /\ validatePageNumber(parseFloat(parts[1]))
    /\ IsIconFile(parts[2])
    /\ validatePercentage(parseFloat(parts[3]))
    /\ validatePercentage(parseFloat(parts[4]))
    /\ validatePositiveNumber(parseFloat(parts[5]))
    /\ validatePositiveNumber(parseFloat(parts[6]))
    /\ Len(parts) >= 7 => ~parseFloat(parts[7]).nan
    /\ Len(parts) = 8 => parts[8] \in {"hover", "visible"}

(* C29 (as claimed): a line whose fields are, in this order, pageNumber,    *)
(* iconRef, centerX%, centerY%, size%, durationMs and optionally delayMs    *)
(* and triggerType, all valid, is accepted and yields a config with exactly *)
(* those values, delayMs = 0 and triggerType = visible when omitted.        *)
C29_DocumentedLineAccepted ==
    (parsed.status # "unparsed" /\ DocumentedLine(cfgLine))
        => /\ parsed.status = "accepted"
           /\ parsed.config.pageNumber = parseFloat(cfgLine[1])
           /\ parsed.config.iconFile = cfgLine[2]
           /\ parsed.config.centerX = parseFloat(cfgLine[3])
           /\ parsed.config.centerY = parseFloat(cfgLine[4])
           /\ parsed.config.size = parseFloat(cfgLine[5])
           /\ parsed.config.duration = parseFloat(cfgLine[6])
           /\ parsed.config.delay = parseFloat(PartOr(cfgLine, 7, "0"))
           /\ parsed.config.triggerType = PartOr(cfgLine, 8, "visible")

(* =========================== hotspot geometry =========================== *)

(* the image sizes the last pass has read                                  *)
StyledDims ==
    [imgDims EXCEPT !.imageWidth = styledFor.imageWidth,
                    !.imageHeight = styledFor.imageHeight]

(* the last pass took the mobile / the desktop transform                   *)
StyledMobile == hsStyle.styled /\ styledFor.innerWidth <= MOBILE

StyledDesktop == hsStyle.styled /\ styledFor.innerWidth > MOBILE

(* the box of the config in rendered pixels: the percentages of the config *)
(* taken of the rendered image, the top measured from the top edge          *)
NaturalBox ==
    LET w == Num(StyledDims.imageWidth)
        h == Num(StyledDims.imageHeight)
    IN  [left |-> Over(Times(w, Num(hsConfig.left)), Num(100)),
         top |-> Over(Times(h, Num(100 - hsConfig.bottom - hsConfig.height)), Num(100)),
         width |-> Over(Times(w, Num(hsConfig.width)), Num(100)),
         height |-> Over(Times(h, Num(hsConfig.height)), Num(100))]

(* minimum = max(MIN_TOUCH_SIZE, min(imageWidth, imageHeight) * MIN_TOUCH_SCALE) *)
TouchMinimum ==
    LET side == IF StyledDims.imageWidth <= StyledDims.imageHeight
                THEN StyledDims.imageWidth ELSE StyledDims.imageHeight
        scaled == Frac(side * 4, 100)
    IN  IF AtMost(scaled, Num(MIN_TOUCH_SIZE)) THEN Num(MIN_TOUCH_SIZE) ELSE scaled

ShorterSide == MathMin(NaturalBox.width, NaturalBox.height)

(* the natural box with both sides multiplied by minimum / shorter side,   *)
(* around the same centre                                                  *)
TouchBox ==
    LET f == Over(TouchMinimum, ShorterSide)
        w == Times(NaturalBox.width, f)
        h == Times(NaturalBox.height, f)
        cx == Plus(NaturalBox.left, Over(NaturalBox.width, Num(2)))
        cy == Plus(NaturalBox.top, Over(NaturalBox.height, Num(2)))
    IN  [left |-> Minus(cx, Over(w, Num(2))), top |-> Minus(cy, Over(h, Num(2))),
         width |-> w, height |-> h]

(* the box lies inside the rendered image                                  *)
FitsImage(box) ==
    /\ AtMost(Num(0), box.left)
    /\ AtMost(Num(0), box.top)
    /\ AtMost(Plus(box.left, box.width), Num(StyledDims.imageWidth))
    /\ AtMost(Plus(box.top, box.height), Num(StyledDims.imageHeight))

(* the inline style shows the box, in percent of the rendered image        *)
StyleShows(box) ==
    /\ Times(hsStyle.left, Num(StyledDims.imageWidth)) = Times(box.left, Num(100))
    /\ Times(hsStyle.top, Num(StyledDims.imageHeight)) = Times(box.top, Num(100))
    /\ Times(hsStyle.width, Num(StyledDims.imageWidth)) = Times(box.width, Num(100))
    /\ Times(hsStyle.height, Num(StyledDims.imageHeight)) = Times(box.height, Num(100))

(* C24: mobile touch inflation. A hotspot whose shorter rendered side is at *)
(* least the minimum is left unscaled (touchScale = 1, the sides are those  *)
(* of the config); one whose shorter side is below it has both sides        *)
(* multiplied by the same factor so that the shorter side equals the        *)
(* minimum exactly, around the centre of the original box; when that        *)
(* inflated box fits inside the image it is the box the hotspot gets.       *)
C24_TouchInflation ==
    StyledMobile
      => LET rendered == RenderedBox(hsConfig, StyledDims) IN
         /\ rendered = NaturalBox
         /\ ~Less(ShorterSide, TouchMinimum)
              => /\ touchScale(rendered, StyledDims) = Num(1)
                 /\ InflatedBox(rendered, StyledDims) = NaturalBox
                 /\ hsStyle.width = Num(hsConfig.width)
                 /\ hsStyle.height = Num(hsConfig.height)
         /\ Less(ShorterSide, TouchMinimum)
              => /\ InflatedBox(rendered, StyledDims) = TouchBox
                 /\ MathMin(TouchBox.width, TouchBox.height) = TouchMinimum
                 /\ Times(TouchBox.width, NaturalBox.height)
                      = Times(TouchBox.height, NaturalBox.width)
                 /\ FitsImage(TouchBox) => StyleShows(TouchBox)

(* C24 witness: a hotspot 2 px wide was inflated on a phone, the inflated   *)
(* box fits inside the image and is the box the hotspot has                 *)
C24_Witness ==
    /\ StyledMobile
    /\ Less(ShorterSide, TouchMinimum)
    /\ FitsImage(TouchBox)
    /\ StyleShows(TouchBox)
    /\ Less(Num(hsConfig.width), hsStyle.width)

(* C25: for every validated config and every positive natural and rendered *)
(* image size, the box of the mobile transform lies fully inside the image: *)
(* left >= 0, top >= 0, left + width <= 100, top + height <= 100.           *)
C25_MobileBoxInsideImage ==
    StyledMobile
      => /\ AtMost(Num(0), hsStyle.left)
         /\ AtMost(Num(0), hsStyle.top)
         /\ AtMost(Plus(hsStyle.left, hsStyle.width), Num(100))
         /\ AtMost(Plus(hsStyle.top, hsStyle.height), Num(100))

(* C25 witness: a config that reaches past the right edge of the image and  *)
(* an inflated box wider than the image were both brought inside            *)
C25_Witness ==
    /\ StyledMobile
    /\ hsConfig.left + hsConfig.width > 100
    /\ Less(Num(StyledDims.imageWidth), TouchBox.width)
    /\ hsStyle.left = Num(0)
    /\ hsStyle.width = Num(100)

(* C26: the desktop transform passes left, width and height through         *)
(* unchanged and sets top = 100 - bottom - height, whatever the image       *)
(* dimensions.                                                              *)
C26_DesktopPassThrough ==
    StyledDesktop
      => /\ hsStyle.left = Num(hsConfig.left)
         /\ hsStyle.width = Num(hsConfig.width)
         /\ hsStyle.height = Num(hsConfig.height)
         /\ hsStyle.top = Num(100 - hsConfig.bottom - hsConfig.height)

(* C26 witness: on a desktop a hotspot 10 % above the bottom edge and 50 %  *)
(* high has its top at 40 %                                                 *)
C26_Witness ==
    /\ StyledDesktop
    /\ hsConfig.bottom = 10
    /\ hsConfig.height = 50
    /\ hsStyle.top = Num(40)

(* C27: repositioning is idempotent. With the same config, the same natural *)
(* and rendered image dimensions and the same viewport width, a pass that   *)
(* follows a pass applies identical left / top / width / height; what a pass *)
(* applies is a function of those inputs alone, not of the box the element  *)
(* had before.                                                             *)
C27_RepositionIdempotent ==
    /\ [](hsStyle.styled
            => hsStyle = positionHotspot(NoStyle, hsConfig, StyledDims,
                                         styledFor.innerWidth))
    /\ [][(/\ hsStyle.styled
           /\ styledFor = [imageWidth |-> imgDims.imageWidth,
                           imageHeight |-> imgDims.imageHeight,
                           innerWidth |-> innerWidth]
           /\ UNCHANGED <<hsConfig, imgDims, innerWidth>>)
            => hsStyle' = hsStyle
         ]_vars

(* C27 witness: two passes in a row on a phone, for a hotspot that the      *)
(* touch inflation enlarges                                                 *)
C27_Witness ==
    /\ passes = 2
    /\ StyledMobile
    /\ Less(ShorterSide, TouchMinimum)
    /\ Less(Num(hsConfig.width), hsStyle.width)

(* ====================== hide and later triggers ========================= *)

(* C38 (as claimed): an animation element for which a hide request has been *)
(* accepted, still fading or already permanently hidden, gets no timeline   *)
(* from a later trigger: the number of timelines started for it is the one  *)
(* it had when the hide was accepted.                                       *)
C38_NoStartAfterHide ==
    \A a \in pageAnims :
        animLog[a].hideAt >= 0
          => animLog[a].timelines = animLog[a].timelinesAtHide

(* ======================= highest rendered page ========================== *)

(* the page numbers whose render reached Ready                              *)
ReadyPages == {dom[i].page : i \in {j \in DOMAIN dom : SlotReady(dom[j])}}

C40_LoaderShownWhileWaiting ==
    (\E k \in NavIds : navs[k].status = "waiting") => loaderVisible

(* ======================== end of the sequence =========================== *)

pipelineState == <<pagesInFlight, maxLoadedPageNumber, allPagesLoaded, nextPage>>

(* C34: a step of a navigation request (handlePageNavigationRequest up to   *)
(* or after its await of waitForPage) changes neither the in-flight set,    *)
(* nor maxLoadedPageNumber, nor allPagesLoaded, nor the next page number of *)
(* the loader; a step of the hotspot or animation engine (position,         *)
(* reposition, trigger, hide, their timers) changes none of these and       *)
(* neither the waiter registry nor its promises.                            *)
C34_ClientsOnlyObserve ==
    [][/\ navs' # navs => UNCHANGED pipelineState
       /\ (animVars' # animVars \/ geomVars' # geomVars)
            => UNCHANGED <<pipelineState, pageReadyResolvers, waiters>>
      ]_vars

(* C34 witness: a request waits for page 2 while page 2 is in flight, and   *)
(* the hotspot of page 1 has been positioned and its animation triggered    *)
(* and hidden in the meantime                                               *)
C34_Witness ==
    /\ navs[1].status = "waiting"
    /\ navs[1].input.value = 2
    /\ pagesInFlight = {2}
    /\ maxLoadedPageNumber = 1
    /\ pageReadyResolvers[2] = <<1>>
    /\ hsStyle.styled
    /\ animLog["animation-mouse"].timelines = 1
    /\ animLog["animation-mouse"].fades = 1

(* ======================== per-attempt timeout =========================== *)

(* C31 (as claimed): every tryFormat call terminates; a fetch that has not  *)
(* completed within TIMEOUT_MS is aborted by the timer of its own call and  *)
(* the call then ends with null ("absent for this format"); no call ends in *)
(* an error; the timer of one call never aborts another call.               *)
C31_AttemptTerminates ==
    /\ \A i \in 1..MaxAttempts :
          [](Len(attempts) >= i
               => <>(Len(attempts) >= i /\ attempts[i].stage = "done"))
    /\ [](\A i \in DOMAIN attempts :
            /\ attempts[i].stage = "fetch"
                 => now <= attempts[i].startedAt + TIMEOUT_MS
            /\ attempts[i].aborted
                 => attempts[i].stage = "done" /\ attempts[i].result = "absent"
            /\ attempts[i].abortedBy \subseteq {i}
            /\ attempts[i].result \in {"pending", "absent", "found"})

(* ========================== reposition bursts =========================== *)

(* C32 (as claimed): while the resize and orientation-change events so far  *)
(* form one burst (every gap shorter than the debounce window), at most one *)
(* reposition timer is pending, and the burst causes exactly one reposition *)
(* pass, which runs after its last event: once no timer is pending the pass *)
(* count is 1 and the pass is not older than the last event.                *)
C32_OnePassPerBurst ==
    (repositionLog.burst /\ repositionLog.events > 0)
        => /\ Cardinality(repositionTimers) <= 1
           /\ repositionLog.passes <= 1
           /\ repositionTimers = {}
                => /\ repositionLog.passes = 1
                   /\ repositionLog.lastPass >= repositionLog.lastEvent

(* ========================= deferred positioning ========================= *)

====
